---- MODULE Spec2Model ----
(***************************************************************************)
(* Verification model of the Vault AI Chat provider layer:                 *)
(*   - the five streaming parsers (async generators over a response body), *)
(*   - the chatStream handshake, validate() and chat() of the adapters.    *)
(*                                                                         *)
(* Text is modelled as a sequence of tokens.  A token is an indivisible    *)
(* piece of the wire text; a network read may end between any two tokens.  *)
(*   "data: "  the SSE field prefix           "\n"  line feed              *)
(*   " " "\r"  white space                    "[DONE]" the SSE sentinel    *)
(*   "{oai:"   {"choices":[{"delta":{"content":"                           *)
(*   "{gem:"   {"candidates":[{"content":{"parts":[{"text":"               *)
(*   "{oll:"   {"message":{"content":"                                     *)
(*   "}"       the closing brackets of the oai / gem payloads              *)
(*   ":f}"     "},"done":false}        ":t}"   "},"done":true}             *)
(*   "{}"      an object without fields       "null"  the JSON null        *)
(*   anything else is a piece of message text (a JSON string body).        *)
(***************************************************************************)
EXTENDS Integers, Sequences, FiniteSets, TLC

\* ------------------------------------------------------------------ bounds
\* Longest input of a stream, in lines.
MaxLines == 3
\* Longest message list handed to convertMessages.
MaxMessages == 3
\* Most register calls between two clears of a ProviderRegistry.
MaxRegistered == 3

\* ------------------------------------------------------------------ text
NL == "\n"
WhiteSpace == {" ", "\r"}
Structural == {"data: ", NL, " ", "\r", "[DONE]", "{oai:", "{gem:", "{oll:",
               "}", ":f}", ":t}", "{}", "null"}

OPEN  == <<"<thi", "nk>">>
CLOSE == <<"</thi", "nk>">>

Last(s) == s[Len(s)]
Front(s) == SubSeq(s, 1, Len(s) - 1)

RECURSIVE Concat(_)
Concat(ss) == IF ss = <<>> THEN <<>> ELSE Head(ss) \o Concat(Tail(ss))

\* String.prototype.split('\n'): always at least one part.
RECURSIVE SplitNL(_)
SplitNL(s) ==
  IF \A i \in 1..Len(s) : s[i] # NL
  THEN <<s>>
  ELSE LET i == CHOOSE k \in 1..Len(s) :
                  s[k] = NL /\ \A j \in 1..(k - 1) : s[j] # NL
       IN  <<SubSeq(s, 1, i - 1)>> \o SplitNL(SubSeq(s, i + 1, Len(s)))

\* String.prototype.trim()
RECURSIVE TrimLeft(_)
TrimLeft(s) == IF s # <<>> /\ Head(s) \in WhiteSpace THEN TrimLeft(Tail(s)) ELSE s
RECURSIVE TrimRight(_)
TrimRight(s) == IF s # <<>> /\ Last(s) \in WhiteSpace THEN TrimRight(Front(s)) ELSE s
Trim(s) == TrimRight(TrimLeft(s))

\* line.startsWith('data: ') and line.slice(6)
StartsWithData(line) == line # <<>> /\ Head(line) = "data: "
Slice6(line) == Tail(line)

\* String.prototype.includes / indexOf / lastIndexOf (0 when absent)
OccursAt(s, pat, i) == i + Len(pat) - 1 <= Len(s) /\ SubSeq(s, i, i + Len(pat) - 1) = pat
Includes(s, pat) == \E i \in 1..Len(s) : OccursAt(s, pat, i)
IndexOf(s, pat) ==
  IF Includes(s, pat)
  THEN CHOOSE i \in 1..Len(s) : OccursAt(s, pat, i) /\ \A j \in 1..(i - 1) : ~OccursAt(s, pat, j)
  ELSE 0
LastIndexOf(s, pat) ==
  IF Includes(s, pat)
  THEN CHOOSE i \in 1..Len(s) : OccursAt(s, pat, i) /\ \A j \in (i + 1)..Len(s) : ~OccursAt(s, pat, j)
  ELSE 0

\* content.replace(/<think>[\s\S]*$/, ''): cut from the first <think> to the end.
CutFromOpen(s) == IF Includes(s, OPEN) THEN SubSeq(s, 1, IndexOf(s, OPEN) - 1) ELSE s
\* content.replace(/^[\s\S]*<\/think>/, ''): cut from the start to the last </think>.
CutToClose(s) ==
  IF Includes(s, CLOSE) THEN SubSeq(s, LastIndexOf(s, CLOSE) + Len(CLOSE), Len(s)) ELSE s

\* ------------------------------------------------------------------ JSON
\* JSON.parse(text): white space around the value is accepted, anything that
\* is not one complete value raises SyntaxError (ok = FALSE).
IsText(s) == \A i \in 1..Len(s) : s[i] \notin Structural
Failed == [ok |-> FALSE, shape |-> "none", text |-> <<>>, done |-> FALSE]
JSONparse(raw) ==
  LET t == Trim(raw) IN
  IF t = <<"{}">> THEN [ok |-> TRUE, shape |-> "object", text |-> <<>>, done |-> FALSE]
  ELSE IF t = <<"null">> THEN [ok |-> TRUE, shape |-> "null", text |-> <<>>, done |-> FALSE]
  ELSE IF Len(t) < 2 \/ ~IsText(SubSeq(t, 2, Len(t) - 1)) THEN Failed
  ELSE IF Head(t) = "{oai:" /\ Last(t) = "}"
       THEN [ok |-> TRUE, shape |-> "oai", text |-> SubSeq(t, 2, Len(t) - 1), done |-> FALSE]
  ELSE IF Head(t) = "{gem:" /\ Last(t) = "}"
       THEN [ok |-> TRUE, shape |-> "gem", text |-> SubSeq(t, 2, Len(t) - 1), done |-> FALSE]
  ELSE IF Head(t) = "{oll:" /\ Last(t) \in {":f}", ":t}"}
       THEN [ok |-> TRUE, shape |-> "oll", text |-> SubSeq(t, 2, Len(t) - 1),
             done |-> (Last(t) = ":t}")]
  ELSE Failed

\* ------------------------------------------------------------------ one line
\* The body of the `for (const line of lines)` loop of each parser.  The
\* result says what the loop does with the line: skip it, yield a content
\* delta, or yield the terminal delta and return.
Skip(think)      == [act |-> "skip", content |-> <<>>, think |-> think]
Yield(c, think)  == [act |-> "yield", content |-> c, think |-> think]
Terminal(think)  == [act |-> "terminal", content |-> <<>>, think |-> think]

\* A loop body without the `if (delta)` test.
parseSSEStream_NoContentTest(line) ==
  IF ~StartsWithData(line) THEN Skip(FALSE)
  ELSE LET data == Slice6(line) IN
       IF data = <<"[DONE]">> THEN Terminal(FALSE)
       ELSE LET parsed == JSONparse(data) IN
            IF ~parsed.ok \/ parsed.shape = "null" THEN Skip(FALSE)
            ELSE Yield(IF parsed.shape = "oai" THEN parsed.text ELSE <<>>, FALSE)

\* OpenRouterProvider.parseSSEStream, loop body
parseSSEStream(line) ==
  IF ~StartsWithData(line) THEN Skip(FALSE)
  ELSE LET data == Slice6(line) IN
       IF data = <<"[DONE]">> THEN Terminal(FALSE)
       ELSE LET parsed == JSONparse(data) IN
            IF ~parsed.ok \/ parsed.shape = "null" THEN Skip(FALSE)
            ELSE LET delta == IF parsed.shape = "oai" THEN parsed.text ELSE <<>> IN
                 IF delta # <<>> THEN Yield(delta, FALSE) ELSE Skip(FALSE)

\* OpenAICompatibleProvider.parseStream, loop body
parseStream(line) ==
  IF ~StartsWithData(line) THEN Skip(FALSE)
  ELSE LET data == Trim(Slice6(line)) IN
       IF data = <<"[DONE]">> THEN Terminal(FALSE)
       ELSE LET parsed == JSONparse(data) IN
            IF ~parsed.ok \/ parsed.shape = "null" THEN Skip(FALSE)
            ELSE LET content == IF parsed.shape = "oai" THEN parsed.text ELSE <<>> IN
                 IF content # <<>> THEN Yield(content, FALSE) ELSE Skip(FALSE)

\* MinimaxProvider.parseMinimaxStream, lines 176-189: the <think> filter.
\* Result: the content left and the new inThinkBlock; drop = the `continue`.
ThinkFilter(content0, inThink0) ==
  LET opened   == Includes(content0, OPEN)
      in1      == IF opened THEN TRUE ELSE inThink0
      content1 == IF opened THEN CutFromOpen(content0) ELSE content0
      closed   == in1 /\ Includes(content1, CLOSE)
      in2      == IF closed THEN FALSE ELSE in1
      content2 == IF closed THEN CutToClose(content1) ELSE content1
  IN  [content |-> content2, think |-> in2, drop |-> in2]

\* MinimaxProvider.parseMinimaxStream, loop body
parseMinimaxStream(line, showThinking, inThinkBlock) ==
  IF ~StartsWithData(line) THEN Skip(inThinkBlock)
  ELSE LET data == Trim(Slice6(line)) IN
       IF data = <<"[DONE]">> THEN Terminal(inThinkBlock)
       ELSE LET parsed == JSONparse(data) IN
            IF ~parsed.ok \/ parsed.shape = "null" THEN Skip(inThinkBlock)
            ELSE LET content == IF parsed.shape = "oai" THEN parsed.text ELSE <<>> IN
                 IF showThinking
                 THEN IF content # <<>> THEN Yield(content, inThinkBlock)
                                        ELSE Skip(inThinkBlock)
                 ELSE LET f == ThinkFilter(content, inThinkBlock) IN
                      IF f.drop THEN Skip(f.think)
                      ELSE IF f.content # <<>> THEN Yield(f.content, f.think)
                      ELSE Skip(f.think)

\* GoogleAIProvider.parseGeminiStream, loop body
\* A loop body that takes a payload without text for the end of the stream.
parseGeminiStream_EmptyTextEnds(line) ==
  IF ~StartsWithData(line) THEN Skip(FALSE)
  ELSE LET parsed == JSONparse(Slice6(line)) IN
       IF ~parsed.ok \/ parsed.shape = "null" THEN Skip(FALSE)
       ELSE LET text == IF parsed.shape = "gem" THEN parsed.text ELSE <<>> IN
            IF text # <<>> THEN Yield(text, FALSE) ELSE Terminal(FALSE)

\* A loop body whose catch ends the stream instead of skipping the line.
parseGeminiStream_EndOnMalformed(line) ==
  IF ~StartsWithData(line) THEN Skip(FALSE)
  ELSE LET parsed == JSONparse(Slice6(line)) IN
       IF ~parsed.ok THEN Terminal(FALSE)
       ELSE IF parsed.shape = "null" THEN Skip(FALSE)
       ELSE LET text == IF parsed.shape = "gem" THEN parsed.text ELSE <<>> IN
            IF text # <<>> THEN Yield(text, FALSE) ELSE Skip(FALSE)

parseGeminiStream(line) ==
  IF ~StartsWithData(line) THEN Skip(FALSE)
  ELSE LET parsed == JSONparse(Slice6(line)) IN
       IF ~parsed.ok \/ parsed.shape = "null" THEN Skip(FALSE)
       ELSE LET text == IF parsed.shape = "gem" THEN parsed.text ELSE <<>> IN
            IF text # <<>> THEN Yield(text, FALSE) ELSE Skip(FALSE)

\* OllamaProvider.parseOllamaStream, loop body
\* A loop body that, like the SSE parsers, yields only non-empty content.
parseOllamaStream_SkipEmpty(line) ==
  IF Trim(line) = <<>> THEN Skip(FALSE)
  ELSE LET parsed == JSONparse(line) IN
       IF ~parsed.ok \/ parsed.shape = "null" THEN Skip(FALSE)
       ELSE IF parsed.done THEN Terminal(FALSE)
       ELSE IF parsed.shape = "oll" /\ parsed.text # <<>> THEN Yield(parsed.text, FALSE)
       ELSE Skip(FALSE)

parseOllamaStream(line) ==
  IF Trim(line) = <<>> THEN Skip(FALSE)
  ELSE LET parsed == JSONparse(line) IN
       IF ~parsed.ok \/ parsed.shape = "null" THEN Skip(FALSE)
       ELSE IF parsed.done THEN Terminal(FALSE)
       ELSE Yield(IF parsed.shape = "oll" THEN parsed.text ELSE <<>>, FALSE)

\* ------------------------------------------------------------------ HTTP
\* What the HTTP layer can answer.  net: the request fails without a response
\* (requestUrl / fetch reject).  body: what the response text holds:
\*   "ok"         the success envelope of the endpoint called
\*   "error"      {"error":{"message":"quota exceeded"}}
\*   "errorNoMsg" {"error":{"code":429}}
\*   "msg"        {"message":"bad request"}
\*   "text"       text that is not JSON
\*   "blocked"    {"promptFeedback":{"blockReason":"SAFETY"}}
\*   "blockedText" the same with a candidate that carries text
\*   "finish"     {"candidates":[{"finishReason":"MAX_TOKENS"}]}
\*   "nullEntry"  a models list whose entry is null: {"data":[null],"models":[null]}
\* hasBody: fetch's response.body is not null.
Statuses == {200, 204, 400, 401, 403, 500}
BodyKinds ==
  {"ok", "error", "errorNoMsg", "msg", "text", "blocked", "blockedText", "finish", "nullEntry"}
NoTransport == [net |-> FALSE, status |-> 0, body |-> "text", hasBody |-> FALSE]
Transports ==
  {[net |-> FALSE, status |-> st, body |-> b, hasBody |-> TRUE] : st \in Statuses, b \in BodyKinds}
  \cup {[net |-> TRUE, status |-> 0, body |-> "text", hasBody |-> FALSE]}
\* fetch may also answer with response.body = null (then the text is empty).
Fetches ==
  Transports \cup {[net |-> FALSE, status |-> st, body |-> "text", hasBody |-> FALSE] : st \in Statuses}

\* `${status}`
Str(n) ==
  CASE n = 200 -> "200" [] n = 204 -> "204" [] n = 400 -> "400"
    [] n = 401 -> "401" [] n = 403 -> "403" [] n = 500 -> "500" [] OTHER -> "0"

EnvelopeMessage == <<"quota exceeded">>
NetworkError == <<"net::ERR_CONNECTION_REFUSED">>
SyntaxError == <<"Unexpected token < in JSON">>
TypeError == <<"Cannot read properties of undefined">>

\* JSON.parse of a response text: ok = it is JSON; errorMessage = error.message,
\* message = the top-level message (<<>> when absent).
BodyJSON(b) ==
  [ok |-> b # "text",
   hasError |-> b \in {"error", "errorNoMsg"},
   errorMessage |-> IF b = "error" THEN EnvelopeMessage ELSE <<>>,
   errorRaw |-> IF b = "error" THEN <<"{\"message\":\"", "quota exceeded", "\"}">>
                ELSE IF b = "errorNoMsg" THEN <<"{\"code\":429}">> ELSE <<>>,
   message |-> IF b = "msg" THEN <<"bad request">> ELSE <<>>,
   success |-> b = "ok",
   blockReason |-> IF b \in {"blocked", "blockedText"} THEN <<"SAFETY">> ELSE <<>>,
   finishReason |-> IF b = "finish" THEN <<"MAX_TOKENS">> ELSE <<>>,
   candidateText |-> IF b \in {"ok", "blockedText"} THEN <<"answer">> ELSE <<>>,
   hasList |-> b \in {"ok", "nullEntry"},
   nullEntry |-> b = "nullEntry"]
\* the response text itself
BodyText(b) ==
  CASE b = "ok" -> <<"{\"choices\":...}">>
    [] b = "error" -> <<"{\"error\":", "{\"message\":\"", "quota exceeded", "\"}", "}">>
    [] b = "errorNoMsg" -> <<"{\"error\":", "{\"code\":429}", "}">>
    [] b = "msg" -> <<"{\"message\":\"", "bad request", "\"}">>
    [] b = "text" -> <<"<html>">>
    [] b = "blocked" -> <<"{\"promptFeedback\":", "{\"blockReason\":\"", "SAFETY", "\"}", "}">>
    [] b = "blockedText" ->
         <<"{\"promptFeedback\":", "{\"blockReason\":\"", "SAFETY", "\"}", ",",
           "\"candidates\":", "answer", "}">>
    [] b = "finish" -> <<"{\"candidates\":", "{\"finishReason\":\"", "MAX_TOKENS", "\"}", "}">>
    [] b = "nullEntry" -> <<"{\"data\":[null],\"models\":[null]}">>

\* obsidian requestUrl: rejects when there is no response, and on a status of
\* 400 or more unless the request says `throw: false`.
requestUrl(t, throwOnError) ==
  IF t.net THEN [threw |-> TRUE, status |-> 0, message |-> NetworkError]
  ELSE IF throwOnError /\ t.status >= 400
       THEN [threw |-> TRUE, status |-> t.status,
             message |-> <<"Request failed, status ", Str(t.status)>>]
  ELSE [threw |-> FALSE, status |-> t.status, message |-> <<>>]

\* How a call settles.
NoResult ==
  [outcome |-> "none", valid |-> FALSE, error |-> <<>>, message |-> <<>>,
   text |-> <<>>, stream |-> FALSE, requests |-> 0,
   models |-> <<>>]
Validated(v, e, n) ==
  [outcome |-> "resolved", valid |-> v, error |-> e, message |-> <<>>,
   text |-> <<>>, stream |-> FALSE, requests |-> n,
   models |-> <<>>]
Rejected(m) ==
  [outcome |-> "rejected", valid |-> FALSE, error |-> <<>>, message |-> m,
   text |-> <<>>, stream |-> FALSE, requests |-> 1,
   models |-> <<>>]
Answered(txt) ==
  [outcome |-> "resolved", valid |-> FALSE, error |-> <<>>, message |-> <<>>,
   text |-> txt, stream |-> FALSE, requests |-> 1,
   models |-> <<>>]
Streaming ==
  [outcome |-> "resolved", valid |-> FALSE, error |-> <<>>, message |-> <<>>,
   text |-> <<>>, stream |-> TRUE, requests |-> 1,
   models |-> <<>>]

Listed(ids, n) ==
  [outcome |-> "resolved", valid |-> FALSE, error |-> <<>>, message |-> <<>>,
   text |-> <<>>, stream |-> FALSE, requests |-> n,
   models |-> ids]

\* `a || b` on strings
Or(a, b) == IF a # <<>> THEN a ELSE b

\* ------------------------------------------------------------------ adapters
Http(status) == <<"HTTP ", Str(status)>>
Ok(status) == status \in 200..299

\* baseUrl.replace(/\/+$/, '')
RECURSIVE StripSlashes(_)
StripSlashes(u) == IF u # <<>> /\ Last(u) = "/" THEN StripSlashes(Front(u)) ELSE u

\* OpenAICompatibleProvider constructor: the value of this.baseUrl.  A URL is
\* a sequence of the tokens "h" (scheme and host), "/", "/v1", "/chat",
\* "/completions".
\* A constructor without the branch for a URL that ends in /v1.
OpenAICompatibleProvider_constructor_NoV1(url) ==
  LET b == StripSlashes(url) IN
  IF Includes(b, <<"/chat", "/completions">>) THEN b
  ELSE IF ~(b # <<>> /\ Last(b) = "/completions") THEN b \o <<"/v1", "/chat", "/completions">>
  ELSE b

OpenAICompatibleProvider_constructor(url) ==
  LET b == StripSlashes(url) IN
  IF Includes(b, <<"/chat", "/completions">>) THEN b
  ELSE IF b # <<>> /\ Last(b) = "/v1" THEN b \o <<"/chat", "/completions">>
  ELSE IF ~(b # <<>> /\ Last(b) = "/completions") THEN b \o <<"/v1", "/chat", "/completions">>
  ELSE b

OpenAICompatibleProvider_validate(base, model, t) ==
  IF base = <<>> THEN Validated(FALSE, <<"Base URL is required">>, 0)
  ELSE IF model = "" THEN Validated(FALSE, <<"Model ID is required">>, 0)
  ELSE LET resp == requestUrl(t, FALSE) IN
       IF resp.threw THEN Validated(FALSE, Or(resp.message, <<"Error">>), 1)
       ELSE IF resp.status = 200 THEN Validated(TRUE, <<>>, 1)
       ELSE LET json == BodyJSON(t.body) IN
            Validated(FALSE,
                      IF json.ok THEN Or(json.errorMessage, Or(json.message, Http(resp.status)))
                                 ELSE Http(resp.status),
                      1)

OpenAICompatibleProvider_chat(t) ==
  LET resp == requestUrl(t, TRUE) IN
  IF resp.threw THEN Rejected(resp.message)
  ELSE LET data == BodyJSON(t.body) IN
       IF ~data.ok THEN Rejected(SyntaxError)
       ELSE IF data.hasError THEN Rejected(Or(data.errorMessage, data.errorRaw))
       ELSE Answered(IF data.success THEN <<"answer">> ELSE <<>>)

OpenAICompatibleProvider_chatStream(t) ==
  IF t.net THEN Rejected(NetworkError)
  ELSE IF ~Ok(t.status)
       THEN LET json == BodyJSON(t.body) IN
            Rejected(IF json.ok THEN Or(json.errorMessage, Http(t.status)) ELSE Http(t.status))
  ELSE IF ~t.hasBody THEN Rejected(<<"No response body">>)
  ELSE Streaming

OpenRouterProvider_validate(t) ==
  LET resp == requestUrl(t, TRUE) IN
  IF resp.threw THEN Validated(FALSE, resp.message, 1)
  ELSE Validated(resp.status = 200, <<>>, 1)

OpenRouterProvider_chat(t) ==
  LET resp == requestUrl(t, TRUE) IN
  IF resp.threw THEN Rejected(resp.message)
  ELSE LET data == BodyJSON(t.body) IN
       IF ~data.ok THEN Rejected(SyntaxError)
       ELSE IF ~data.success THEN Rejected(TypeError)
       ELSE Answered(<<"answer">>)

OpenRouterProvider_chatStream(t) ==
  IF t.net THEN Rejected(NetworkError)
  ELSE IF ~t.hasBody THEN Rejected(<<"No response body for streaming">>)
  ELSE Streaming

MinimaxProvider_validate(t) ==
  LET resp == requestUrl(t, TRUE) IN
  IF resp.threw
  THEN IF resp.status = 401 THEN Validated(FALSE, <<"Invalid API key">>, 1)
       ELSE Validated(FALSE, resp.message, 1)
  ELSE Validated(resp.status = 200, <<>>, 1)

\* content.replace(/<think>[\s\S]*?<\/think>/g, '')
RECURSIVE RemoveThinkBlocks(_)
RemoveThinkBlocks(c) ==
  IF ~Includes(c, OPEN) THEN c
  ELSE LET i    == IndexOf(c, OPEN)
           rest == SubSeq(c, i + Len(OPEN), Len(c))
       IN  IF ~Includes(rest, CLOSE) THEN c
           ELSE SubSeq(c, 1, i - 1)
                \o RemoveThinkBlocks(SubSeq(rest, IndexOf(rest, CLOSE) + Len(CLOSE), Len(rest)))

\* A strip whose pattern is greedy: <think>[\s\S]*<\/think>
stripThinkingBlocks_Greedy(content) ==
  IF Includes(content, OPEN)
     /\ Includes(SubSeq(content, IndexOf(content, OPEN) + Len(OPEN), Len(content)), CLOSE)
  THEN Trim(SubSeq(content, 1, IndexOf(content, OPEN) - 1)
            \o SubSeq(content, LastIndexOf(content, CLOSE) + Len(CLOSE), Len(content)))
  ELSE Trim(content)

\* MinimaxProvider.stripThinkingBlocks
stripThinkingBlocks(content) == Trim(RemoveThinkBlocks(content))

\* the content of a MiniMax success envelope: the example of the
\* specification, and the contents below
MinimaxAnswer == <<"<thi", "nk>", "internal musing", "</thi", "nk>", "Visible answer">>
MinimaxAnswers ==
  { MinimaxAnswer,
    <<"<thi", "nk>", "a", "</thi", "nk>", "mid", "<thi", "nk>", "b", "</thi", "nk>", "end">>,
    <<"<thi", "nk>", "a", "</thi", "nk>", NL, NL, "Visible answer">>,
    <<"before", "<thi", "nk>", "unclosed">>,
    <<"Visible answer", " ">>,
    <<"Visible answer">> }
\* the contents a call may be answered with: what the envelope of t carries
AnswersOf(k, t) ==
  IF k = "minimax" /\ ~t.net /\ t.status < 400 /\ t.body = "ok" THEN MinimaxAnswers
  ELSE {<<>>}

MinimaxProvider_chat(show, t, content) ==
  LET resp == requestUrl(t, TRUE) IN
  IF resp.threw THEN Rejected(resp.message)
  ELSE LET data == BodyJSON(t.body) IN
       IF ~data.ok THEN Rejected(SyntaxError)
       ELSE IF ~data.success THEN Rejected(TypeError)
       ELSE Answered(IF show THEN content ELSE stripThinkingBlocks(content))

MinimaxProvider_chatStream(t) ==
  IF t.net THEN Rejected(NetworkError)
  ELSE IF ~Ok(t.status) THEN Rejected(<<"MiniMax API error: ", Str(t.status), " ", "statusText">>)
  ELSE IF ~t.hasBody THEN Rejected(<<"No response body for streaming">>)
  ELSE Streaming

OllamaProvider_validate(t) ==
  LET resp == requestUrl(t, TRUE) IN
  IF resp.threw THEN Validated(FALSE, <<"Cannot connect to Ollama at ", "baseUrl">>, 1)
  ELSE Validated(resp.status = 200, <<>>, 1)

OllamaProvider_chat(t) ==
  LET resp == requestUrl(t, TRUE) IN
  IF resp.threw THEN Rejected(resp.message)
  ELSE LET data == BodyJSON(t.body) IN
       IF ~data.ok THEN Rejected(SyntaxError)
       ELSE IF data.success THEN Answered(<<"answer">>)
       ELSE IF data.message # <<>> THEN Answered(<<>>)
       ELSE Rejected(TypeError)

OllamaProvider_chatStream(t) ==
  IF t.net THEN Rejected(NetworkError)
  ELSE IF ~t.hasBody THEN Rejected(<<"No response body">>)
  ELSE Streaming

\* A validate whose read of resp.json is outside the try block.
GoogleAIProvider_validate_NoCatch(t) ==
  LET resp == requestUrl(t, FALSE) IN
  IF resp.threw THEN Validated(FALSE, resp.message, 1)
  ELSE IF resp.status = 200 THEN Validated(TRUE, <<>>, 1)
  ELSE IF resp.status = 400 THEN Validated(FALSE, <<"Invalid API key format">>, 1)
  ELSE IF resp.status = 403 THEN Validated(FALSE, <<"API key not authorized">>, 1)
  ELSE LET errorData == BodyJSON(t.body) IN
       IF ~errorData.ok THEN Rejected(SyntaxError)
       ELSE Validated(FALSE, Or(errorData.errorMessage, Http(resp.status)), 1)

GoogleAIProvider_validate(t) ==
  LET resp == requestUrl(t, FALSE) IN
  IF resp.threw THEN Validated(FALSE, resp.message, 1)
  ELSE IF resp.status = 200 THEN Validated(TRUE, <<>>, 1)
  ELSE IF resp.status = 400 THEN Validated(FALSE, <<"Invalid API key format">>, 1)
  ELSE IF resp.status = 403 THEN Validated(FALSE, <<"API key not authorized">>, 1)
  ELSE LET errorData == BodyJSON(t.body) IN
       IF ~errorData.ok THEN Validated(FALSE, SyntaxError, 1)
       ELSE Validated(FALSE, Or(errorData.errorMessage, Http(resp.status)), 1)

\* A chat that extracts the text without looking at promptFeedback.
GoogleAIProvider_chat_NoBlockCheck(t) ==
  LET resp == requestUrl(t, FALSE) IN
  IF resp.threw THEN Rejected(resp.message)
  ELSE LET data == BodyJSON(t.body) IN
       IF ~data.ok THEN Rejected(SyntaxError)
       ELSE IF resp.status # 200
            THEN Rejected(<<"Google AI: ">> \o Or(data.errorMessage, BodyText(t.body)))
       ELSE LET text == data.candidateText IN
            IF text = <<>> /\ data.finishReason # <<>>
            THEN Rejected(<<"No response. Reason: ">> \o data.finishReason)
            ELSE Answered(text)

GoogleAIProvider_chat(t) ==
  LET resp == requestUrl(t, FALSE) IN
  IF resp.threw THEN Rejected(resp.message)
  ELSE LET data == BodyJSON(t.body) IN
       IF ~data.ok THEN Rejected(SyntaxError)
       ELSE IF resp.status # 200
            THEN Rejected(<<"Google AI: ">> \o Or(data.errorMessage, BodyText(t.body)))
       ELSE IF data.blockReason # <<>>
            THEN Rejected(<<"Content blocked: ">> \o data.blockReason)
       ELSE LET text == data.candidateText IN
            IF text = <<>> /\ data.finishReason # <<>>
            THEN Rejected(<<"No response. Reason: ">> \o data.finishReason)
            ELSE Answered(text)

GoogleAIProvider_chatStream(t) ==
  IF t.net THEN Rejected(NetworkError)
  ELSE IF ~Ok(t.status)
       THEN LET json == BodyJSON(t.body) IN
            Rejected(<<"Google AI: ">>
                     \o (IF json.ok THEN Or(json.errorMessage, Http(t.status)) ELSE Http(t.status)))
  ELSE IF ~t.hasBody THEN Rejected(<<"No response body">>)
  ELSE Streaming

\* ------------------------------------------------------------------ listModels
\* The ids a models endpoint lists in its success envelope; Gemini keeps the
\* entries that support generateContent.
ServerModels == <<"m1", "embed">>
GenerateContentModels == <<"m1">>
OpenRouterFallback ==
  <<"anthropic/claude-3.5-sonnet", "openai/gpt-4o", "google/gemini-pro-1.5",
    "meta-llama/llama-3.1-70b-instruct">>
MinimaxModels == <<"MiniMax-M2.1", "MiniMax-M2">>
GeminiFallback == <<"gemini-2.0-flash", "gemini-2.5-flash", "gemini-2.5-pro">>

\* The body of the try block of a listModels: the ids mapped from the list
\* of the response, or the exception that leaves the block.
TryList(t, ids) ==
  LET resp == requestUrl(t, TRUE) IN
  IF resp.threw THEN Rejected(resp.message)
  ELSE LET data == BodyJSON(t.body) IN
       IF ~data.ok THEN Rejected(SyntaxError)
       ELSE IF ~data.hasList \/ data.nullEntry THEN Rejected(TypeError)
       ELSE Listed(ids, 1)

OpenAICompatibleProvider_listModels(model) == Listed(<<model>>, 0)

OpenRouterProvider_listModels(t) ==
  LET try == TryList(t, ServerModels) IN
  IF try.outcome = "rejected" THEN Listed(OpenRouterFallback, 1) ELSE try

MinimaxProvider_listModels == Listed(MinimaxModels, 0)

\* A listModels without its try/catch.
OllamaProvider_listModels_NoCatch(t) == TryList(t, ServerModels)

OllamaProvider_listModels(t) ==
  LET try == TryList(t, ServerModels) IN
  IF try.outcome = "rejected" THEN Listed(<<>>, 1) ELSE try

GoogleAIProvider_listModels(t) ==
  LET try == TryList(t, GenerateContentModels) IN
  IF try.outcome = "rejected" THEN Listed(GeminiFallback, 1) ELSE try

\* `url: this.baseUrl` / `fetch(this.baseUrl, ...)`: where a request of an
\* OpenAICompatibleProvider goes, when the call r issued one.
RequestUrl(k, base, r) == IF k = "openai" /\ r.requests > 0 THEN base ELSE <<>>

\* LLMProvider.validate / chat / chatStream / listModels of the adapter k
validate(k, base, model, t) ==
  CASE k = "openai"     -> OpenAICompatibleProvider_validate(base, model, t)
    [] k = "openrouter" -> OpenRouterProvider_validate(t)
    [] k = "minimax"    -> MinimaxProvider_validate(t)
    [] k = "ollama"     -> OllamaProvider_validate(t)
    [] k = "gemini"     -> GoogleAIProvider_validate(t)
chat(k, show, t, content) ==
  CASE k = "openai"     -> OpenAICompatibleProvider_chat(t)
    [] k = "openrouter" -> OpenRouterProvider_chat(t)
    [] k = "minimax"    -> MinimaxProvider_chat(show, t, content)
    [] k = "ollama"     -> OllamaProvider_chat(t)
    [] k = "gemini"     -> GoogleAIProvider_chat(t)
listModels(k, model, t) ==
  CASE k = "openai"     -> OpenAICompatibleProvider_listModels(model)
    [] k = "openrouter" -> OpenRouterProvider_listModels(t)
    [] k = "minimax"    -> MinimaxProvider_listModels
    [] k = "ollama"     -> OllamaProvider_listModels(t)
    [] k = "gemini"     -> GoogleAIProvider_listModels(t)
chatStream(k, t) ==
  CASE k = "openai"     -> OpenAICompatibleProvider_chatStream(t)
    [] k = "openrouter" -> OpenRouterProvider_chatStream(t)
    [] k = "minimax"    -> MinimaxProvider_chatStream(t)
    [] k = "ollama"     -> OllamaProvider_chatStream(t)
    [] k = "gemini"     -> GoogleAIProvider_chatStream(t)

\* ------------------------------------------------------------------ state
VARIABLES
  kind,          \* which parser runs: the adapter that owns the generator
  showThinking,  \* MinimaxProvider.showThinking
  stream,        \* the bytes the response body delivers before it closes
  pos,           \* how many of them reader.read() has handed out
  buffer,        \* `buffer`: the unterminated rest of the text read so far
  lines,         \* the lines of the current read the for loop has yet to visit
  inThinkBlock,  \* `inThinkBlock` of parseMinimaxStream
  pc,            \* where the generator stands
  locked,        \* the reader lock on the response body is held
  emitted,       \* the deltas the consumer has received, in order
  fed,           \* one record per line the for loop has visited
  joined,        \* the delta just yielded comes from a line that an earlier
                 \* read had cut inside its payload
  exit,          \* how the generator ended: none, exhausted, abandoned, raised
  urlArg,        \* the base URL handed to the OpenAICompatibleProvider constructor
  baseUrl,       \* OpenAICompatibleProvider.baseUrl after the constructor
  modelId,       \* OpenAICompatibleProvider.modelId
  op,            \* the adapter method called last
  transport,     \* what the HTTP layer answered to that call
  answer,        \* the message content a success envelope carries (chat)
  target,        \* the URL an OpenAICompatibleProvider request went to (<<>>: no
                 \* request, or an adapter whose URLs are literals)
  result,        \* how the call settled (result.requests: HTTP requests issued)
  messages,      \* the ChatMessage list handed to GoogleAIProvider.convertMessages
  contents,      \* what convertMessages returned
  converted,     \* convertMessages has returned
  providers,     \* ProviderRegistry.providers: the Map, as its entries in insertion order
  history,       \* the providers registered since the last clear, in call order
  returned,      \* what the last ProviderRegistry call returned
  settings,      \* VaultAIPlugin.settings
  generation,    \* how many times initializeProviders has run
  pending,       \* saveSettings calls waiting in `await this.saveData(...)`
  lastSave,      \* how the saveSettings call that finished last settled
  started,       \* settings-tab onChange handlers run so far
  isStreaming,   \* ChatView.isStreaming
  conversationHistory,  \* ChatView.conversationHistory
  running,       \* the sendMessage / cmdGenerate calls suspended at an await
  sends,         \* sendMessage calls made so far
  adapters,      \* the adapters two streams are taken from
  gens           \* two stream generators: their local variables and deltas

streamVars == <<stream, pos, buffer, lines, inThinkBlock,
                pc, locked, emitted, fed, joined, exit>>
callVars == <<urlArg, baseUrl, modelId, op, transport, answer, target, result>>
convVars == <<messages, contents, converted>>
regVars == <<providers, history, returned>>
pluginVars == <<settings, generation, pending, lastSave, started>>
chatVars == <<isStreaming, conversationHistory, running, sends>>
pairVars == <<adapters, gens>>
appVars == <<pluginVars, chatVars, pairVars>>
vars == <<kind, showThinking, streamVars, callVars, convVars, regVars, appVars>>

\* what the last ProviderRegistry call returned: nothing yet
NoReturn == [op |-> "none", id |-> "", value |-> <<>>]

\* The parts of the state a specification does not exercise.
StreamIdle ==
  /\ stream = <<>> /\ pos = 0 /\ buffer = <<>> /\ lines = <<>> /\ inThinkBlock = FALSE
  /\ pc = "idle" /\ locked = FALSE /\ emitted = <<>> /\ fed = <<>> /\ joined = FALSE
  /\ exit = "none"
CallsIdle ==
  /\ urlArg = <<>> /\ baseUrl = <<>> /\ modelId = "" /\ op = "none"
  /\ transport = NoTransport /\ answer = <<>> /\ target = <<>> /\ result = NoResult
ConvIdle == messages = <<>> /\ contents = <<>> /\ converted = FALSE
RegIdle == providers = <<>> /\ history = <<>> /\ returned = NoReturn

\* DEFAULT_SETTINGS, for the fields the registry and the chat view read.
\* customApiUrl is a URL in tokens; the other strings are atoms.
DEFAULT_SETTINGS ==
  [provider |-> "openrouter", selectedModel |-> "",
   openrouterApiKey |-> "", googleApiKey |-> "", minimaxApiKey |-> "",
   minimaxShowThinking |-> FALSE,
   customApiUrl |-> <<>>, customApiKey |-> "", customModel |-> ""]
PluginIdle ==
  /\ settings = DEFAULT_SETTINGS /\ generation = 0 /\ pending = 0
  /\ lastSave = "none" /\ started = 0
ChatIdle ==
  /\ isStreaming = FALSE /\ conversationHistory = <<>> /\ running = <<>> /\ sends = 0
PairIdle == adapters = <<>> /\ gens = <<>>
AppIdle == PluginIdle /\ ChatIdle /\ PairIdle

Kinds == {"openrouter", "openai", "minimax", "gemini", "ollama"}

\* The lines a response may carry (without the line feed).
SSELines ==
  { <<"data: ", "{oai:", "Hel", "}">>,
    <<"data: ", "{oai:", "lo", "}">>,
    <<"data: ", "{oai:", "}">>,
    <<"data: ", "{oai:", "Hel">>,
    <<"data: ", "[DONE]">>,
    <<"data: ", "[DONE]", "\r">>,
    <<>> }
MinimaxLines ==
  { <<"data: ", "{oai:", "<thi", "}">>,
    <<"data: ", "{oai:", "nk>", "hidden", "</thi", "nk>", "Vis", "}">>,
    <<"data: ", "{oai:", "ible", "}">>,
    <<"data: ", "{oai:", "before", "<thi", "nk>", "x", "</thi", "nk>", "after", "}">>,
    <<"data: ", "{oai:", "before", "<thi", "nk>", "hidden", "}">>,
    <<"data: ", "{oai:", "</thi", "nk>", "mid", "<thi", "nk>", "}">>,
    <<"data: ", "{oai:", "Hel">>,
    <<"data: ", "[DONE]">> }
\* `data: {}` stands for a payload without candidates, such as one that
\* carries only promptFeedback.blockReason.
GeminiLines ==
  { <<"data: ", "{gem:", "Hel", "}">>,
    <<"data: ", "{gem:", "lo", "}">>,
    <<"data: ", "{gem:", "}">>,
    <<"data: ", "{gem:", "Hel">>,
    <<"data: ", "{}">>,
    <<"data: ", "[DONE]">>,
    <<>> }
OllamaLines ==
  { <<"{oll:", "Hi", ":f}">>,
    <<"{oll:", ":f}">>,
    <<"{oll:", "Hi", ":f}", "\r">>,
    <<"{oll:", "Hi">>,
    <<"null">>,
    <<"{oll:", ":t}">>,
    <<>> }
\* With showThinking = true the filter is off and parseMinimaxStream reads as
\* parseStream does: bodies of these lines are enough.
MinimaxShownLines ==
  { <<"data: ", "{oai:", "before", "<thi", "nk>", "x", "</thi", "nk>", "after", "}">>,
    <<"data: ", "{oai:", "ible", "}">>,
    <<"data: ", "[DONE]">> }
LinesOf(k) ==
  CASE k = "minimax" -> MinimaxLines
    [] k = "gemini"  -> GeminiLines
    [] k = "ollama"  -> OllamaLines
    [] OTHER         -> SSELines

RECURSIVE SeqsUpTo(_, _)
SeqsUpTo(S, n) ==
  IF n = 0 THEN {<<>>}
  ELSE LET shorter == SeqsUpTo(S, n - 1)
       IN  shorter \cup {Append(q, x) : q \in {r \in shorter : Len(r) = n - 1}, x \in S}

RECURSIVE JoinLines(_)
JoinLines(ls) == IF ls = <<>> THEN <<>> ELSE Head(ls) \o <<NL>> \o JoinLines(Tail(ls))

\* The text a body may end with when it closes before a line feed arrives:
\* a line that would give a content delta, and the terminal signal.
TailsOf(k) ==
  CASE k = "gemini" -> { <<"data: ", "{gem:", "lo", "}">>, <<"data: ", "[DONE]">> }
    [] k = "ollama" -> { <<"{oll:", "Hi", ":f}">>, <<"{oll:", ":t}">> }
    [] OTHER        -> { <<"data: ", "{oai:", "lo", "}">>, <<"data: ", "[DONE]">> }

\* A response body: up to MaxLines lines, the last one possibly cut off
\* (the body closes before its line feed arrives).
BodiesOf(k) ==
  {JoinLines(ls) : ls \in SeqsUpTo(LinesOf(k), MaxLines)}
  \cup {JoinLines(ls) \o t : ls \in SeqsUpTo(LinesOf(k), MaxLines - 1), t \in TailsOf(k)}

\* ------------------------------------------------------------------ generator
\* The loop body of the parser that runs.
LineStep(k, line, show, think) ==
  CASE k = "openrouter" -> parseSSEStream(line)
    [] k = "openai"     -> parseStream(line)
    [] k = "minimax"    -> parseMinimaxStream(line, show, think)
    [] k = "gemini"     -> parseGeminiStream(line)
    [] k = "ollama"     -> parseOllamaStream(line)

\* A parser that forgets the unterminated rest of a read.
Retain_Dropped(parts) == <<>>
\* `buffer = lines.pop() || ''`
Retain(parts) == Last(parts)

\* Position after the for loop has been left to itself: back to the read
\* when no line is left.
PcLoop(ls) == IF ls = <<>> THEN "read" ELSE "loop"

InitStream ==
  /\ kind \in Kinds
  /\ showThinking \in (IF kind = "minimax" THEN BOOLEAN ELSE {FALSE})
  /\ stream \in BodiesOf(kind)
  /\ showThinking =>
       \A i \in 1..(Len(SplitNL(stream)) - 1) : SplitNL(stream)[i] \in MinimaxShownLines
  /\ pos = 0
  /\ buffer = <<>>
  /\ lines = <<>>
  /\ inThinkBlock = FALSE
  /\ pc = "idle"
  /\ locked = FALSE
  /\ emitted = <<>>
  /\ fed = <<>>
  /\ joined = FALSE
  /\ exit = "none"
  /\ urlArg = <<>>
  /\ baseUrl = <<>>
  /\ modelId = ""
  /\ op = "none"
  /\ transport = NoTransport
  /\ answer = <<>>
  /\ target = <<>>
  /\ result = NoResult
  /\ ConvIdle
  /\ RegIdle
  /\ AppIdle

\* First next(): the body starts, body.getReader() takes the lock.
GenStart ==
  /\ pc = "idle"
  /\ locked' = TRUE
  /\ pc' = "read"
  /\ UNCHANGED <<kind, showThinking, stream, pos, buffer, lines, inThinkBlock,
                 emitted, fed, joined, exit>>
  /\ UNCHANGED <<callVars, convVars, regVars, appVars>>

\* reader.read() resolves with the next n bytes; the buffer is split and the
\* last part kept.
GenRead(n) ==
  /\ pc = "read"
  /\ pos + n <= Len(stream)
  /\ LET parts == SplitNL(buffer \o SubSeq(stream, pos + 1, pos + n)) IN
       /\ lines' = Front(parts)
       /\ buffer' = Retain(parts)
       /\ pc' = PcLoop(Front(parts))
  /\ pos' = pos + n
  /\ joined' = (Len(buffer) >= 2 /\ Len(SplitNL(buffer \o SubSeq(stream, pos + 1, pos + n))) >= 2)
  /\ UNCHANGED <<kind, showThinking, stream, inThinkBlock, locked, emitted, fed, exit>>
  /\ UNCHANGED <<callVars, convVars, regVars, appVars>>

\* reader.read() resolves with done: break, finally, then the closing yield.
GenReadDone ==
  /\ pc = "read"
  /\ pos = Len(stream)
  /\ locked' = FALSE
  /\ emitted' = Append(emitted, [content |-> <<>>, done |-> TRUE])
  /\ pc' = "final"
  /\ UNCHANGED <<kind, showThinking, stream, pos, buffer, lines, inThinkBlock, fed, joined, exit>>
  /\ UNCHANGED <<callVars, convVars, regVars, appVars>>

\* reader.read() rejects: finally runs, the error leaves the generator.
GenReadRaise ==
  /\ pc = "read"
  /\ locked' = FALSE
  /\ pc' = "closed"
  /\ exit' = "raised"
  /\ UNCHANGED <<kind, showThinking, stream, pos, buffer, lines, inThinkBlock,
                 emitted, fed, joined>>
  /\ UNCHANGED <<callVars, convVars, regVars, appVars>>

\* One turn of the for loop.
GenLine ==
  /\ pc = "loop"
  /\ lines # <<>>
  /\ LET line == Head(lines)
         r    == LineStep(kind, line, showThinking, inThinkBlock)
     IN  /\ inThinkBlock' = r.think
         /\ fed' = Append(fed, [line |-> line, act |-> r.act, content |-> r.content,
                                before |-> inThinkBlock])
         /\ lines' = Tail(lines)
         /\ joined' = (joined /\ r.act = "yield")
         /\ CASE r.act = "skip" ->
                   /\ pc' = PcLoop(Tail(lines))
                   /\ emitted' = emitted
              [] r.act = "yield" ->
                   /\ pc' = "yielded"
                   /\ emitted' = Append(emitted, [content |-> r.content, done |-> FALSE])
              [] r.act = "terminal" ->
                   /\ pc' = "terminal"
                   /\ emitted' = Append(emitted, [content |-> <<>>, done |-> TRUE])
  /\ UNCHANGED <<kind, showThinking, stream, pos, buffer, locked, exit>>
  /\ UNCHANGED <<callVars, convVars, regVars, appVars>>

\* next() after a content delta: the for loop goes on.
GenResume ==
  /\ pc = "yielded"
  /\ pc' = PcLoop(lines)
  /\ joined' = FALSE
  /\ UNCHANGED <<kind, showThinking, stream, pos, buffer, lines, inThinkBlock,
                 locked, emitted, fed, exit>>
  /\ UNCHANGED <<callVars, convVars, regVars, appVars>>

\* A parser whose sentinel branch lacks the `return`: the loop goes on.
GenReturnAfterDone_NoReturn ==
  /\ pc = "terminal"
  /\ pc' = PcLoop(lines)
  /\ UNCHANGED <<kind, showThinking, stream, pos, buffer, lines, inThinkBlock,
                 locked, emitted, fed, joined, exit>>
  /\ UNCHANGED <<callVars, convVars, regVars, appVars>>

\* next() after the terminal delta of the sentinel: `return`, finally.
GenReturnAfterDone ==
  /\ pc = "terminal"
  /\ locked' = FALSE
  /\ pc' = "closed"
  /\ exit' = "exhausted"
  /\ UNCHANGED <<kind, showThinking, stream, pos, buffer, lines, inThinkBlock,
                 emitted, fed, joined>>
  /\ UNCHANGED <<callVars, convVars, regVars, appVars>>

\* next() after the closing yield: the body ends.
GenEnd ==
  /\ pc = "final"
  /\ pc' = "closed"
  /\ exit' = "exhausted"
  /\ UNCHANGED <<kind, showThinking, stream, pos, buffer, lines, inThinkBlock,
                 locked, emitted, fed, joined>>
  /\ UNCHANGED <<callVars, convVars, regVars, appVars>>

\* A parser without the finally block: abandoning it leaves the lock held.
ConsumerReturn_NoFinally ==
  /\ pc \in {"idle", "yielded", "terminal", "final"}
  /\ pc' = "closed"
  /\ exit' = "abandoned"
  /\ joined' = FALSE
  /\ UNCHANGED <<kind, showThinking, stream, pos, buffer, lines, inThinkBlock,
                 locked, emitted, fed>>
  /\ UNCHANGED <<callVars, convVars, regVars, appVars>>

\* The consumer leaves its for-await loop (break on delta.done, or its body
\* throws): iterator.return() runs the finally of a generator suspended
\* inside the try.
ConsumerReturn ==
  /\ pc \in {"idle", "yielded", "terminal", "final"}
  /\ locked' = IF pc \in {"yielded", "terminal"} THEN FALSE ELSE locked
  /\ pc' = "closed"
  /\ exit' = "abandoned"
  /\ joined' = FALSE
  /\ UNCHANGED <<kind, showThinking, stream, pos, buffer, lines, inThinkBlock,
                 emitted, fed>>
  /\ UNCHANGED <<callVars, convVars, regVars, appVars>>

NextStream ==
  \/ GenStart
  \/ \E n \in 1..Len(stream) : GenRead(n)
  \/ GenReadDone
  \/ GenReadRaise
  \/ GenLine
  \/ GenResume
  \/ GenReturnAfterDone
  \/ GenEnd
  \/ ConsumerReturn

Spec == InitStream /\ [][NextStream]_vars

TypeOK ==
  /\ pc \in {"idle", "read", "loop", "yielded", "terminal", "final", "closed"}
  /\ exit \in {"none", "exhausted", "abandoned", "raised"}
  /\ pos \in 0..Len(stream)

\* ------------------------------------------------------------------ adapter calls
\* The base URLs a user may configure.
UrlInputs ==
  { <<>>, <<"h">>, <<"h", "/">>, <<"h", "/", "/">>, <<"h", "/v1">>, <<"h", "/v1", "/">>,
    <<"h", "/completions">>, <<"h", "/v1", "/chat", "/completions">>,
    <<"h", "/v1", "/chat", "/completions", "/">>, <<"h", "/chat", "/completions", "/v1">> }
ModelIds == {"", "m"}

\* An adapter right after its construction.
InitCalls ==
  /\ kind \in Kinds
  /\ showThinking \in (IF kind = "minimax" THEN BOOLEAN ELSE {FALSE})
  /\ urlArg \in (IF kind = "openai" THEN UrlInputs ELSE {<<>>})
  /\ baseUrl = (IF kind = "openai" THEN OpenAICompatibleProvider_constructor(urlArg) ELSE <<>>)
  /\ modelId \in (IF kind = "openai" THEN ModelIds ELSE {""})
  /\ op = "none"
  /\ transport = NoTransport
  /\ answer = <<>>
  /\ target = <<>>
  /\ result = NoResult
  /\ stream = <<>> /\ pos = 0 /\ buffer = <<>> /\ lines = <<>> /\ inThinkBlock = FALSE
  /\ pc = "idle" /\ locked = FALSE /\ emitted = <<>> /\ fed = <<>> /\ joined = FALSE
  /\ exit = "none"
  /\ ConvIdle
  /\ RegIdle
  /\ AppIdle

CallValidate(t) ==
  /\ op' = "validate"
  /\ transport' = t
  /\ answer' = <<>>
  /\ result' = validate(kind, baseUrl, modelId, t)
  /\ target' = RequestUrl(kind, baseUrl, validate(kind, baseUrl, modelId, t))
  /\ UNCHANGED <<kind, showThinking, urlArg, baseUrl, modelId, streamVars, convVars, regVars, appVars>>

\* chat() answered by the transport t; c is the message content of the
\* success envelope, should t carry one.
CallChat(t, c) ==
  /\ op' = "chat"
  /\ transport' = t
  /\ answer' = c
  /\ result' = chat(kind, showThinking, t, c)
  /\ target' = RequestUrl(kind, baseUrl, chat(kind, showThinking, t, c))
  /\ UNCHANGED <<kind, showThinking, urlArg, baseUrl, modelId, streamVars, convVars, regVars, appVars>>

CallChatStream(t) ==
  /\ op' = "chatStream"
  /\ transport' = t
  /\ answer' = <<>>
  /\ result' = chatStream(kind, t)
  /\ target' = RequestUrl(kind, baseUrl, chatStream(kind, t))
  /\ UNCHANGED <<kind, showThinking, urlArg, baseUrl, modelId, streamVars, convVars, regVars, appVars>>

CallListModels(t) ==
  /\ op' = "listModels"
  /\ transport' = t
  /\ answer' = <<>>
  /\ result' = listModels(kind, modelId, t)
  /\ target' = RequestUrl(kind, baseUrl, listModels(kind, modelId, t))
  /\ UNCHANGED <<kind, showThinking, urlArg, baseUrl, modelId, streamVars, convVars, regVars, appVars>>

NextCalls ==
  \/ \E t \in Transports : CallListModels(t)
  \/ \E t \in Transports : CallValidate(t)
  \/ \E t \in Transports : \E c \in AnswersOf(kind, t) : CallChat(t, c)
  \/ \E t \in Fetches : CallChatStream(t)

SpecCalls == InitCalls /\ [][NextCalls]_vars

\* ------------------------------------------------------------------ convertMessages
\* A ChatMessage is [role, content]; an entry of the Gemini `contents` is
\* [role, text] (its parts[0].text).
Roles == {"system", "user", "assistant"}
MessageTexts == {<<"a">>, <<"b">>, <<>>}
ChatMessages == [role : Roles, content : MessageTexts]

\* `systemContent` after the first loop
RECURSIVE SystemContent(_)
SystemContent(ms) ==
  IF ms = <<>> THEN <<>>
  ELSE (IF Head(ms).role = "system" THEN Head(ms).content \o <<NL, NL>> ELSE <<>>)
       \o SystemContent(Tail(ms))

\* `contents` after the first loop
RECURSIVE PushedContents(_)
PushedContents(ms) ==
  IF ms = <<>> THEN <<>>
  ELSE (IF Head(ms).role = "system" THEN <<>>
        ELSE << [role |-> IF Head(ms).role = "assistant" THEN "model" ELSE "user",
                 text |-> Head(ms).content] >>)
       \o PushedContents(Tail(ms))

\* the index the second loop stops at: the first entry with role user, 0 if none
FirstUser(cs) ==
  IF \E i \in 1..Len(cs) : cs[i].role = "user"
  THEN CHOOSE i \in 1..Len(cs) : cs[i].role = "user" /\ \A j \in 1..(i - 1) : cs[j].role # "user"
  ELSE 0

\* GoogleAIProvider.convertMessages
convertMessages(ms) ==
  LET systemContent == SystemContent(ms)
      pushed        == PushedContents(ms)
      i             == FirstUser(pushed)
      merged        == IF systemContent # <<>> /\ Len(pushed) > 0 /\ i > 0
                       THEN [pushed EXCEPT ![i].text = systemContent \o @]
                       ELSE pushed
  IN  IF Len(merged) = 0
      THEN << [role |-> "user", text |-> Or(systemContent, <<"Hello">>)] >>
      ELSE merged

\* A GoogleAIProvider about to convert a message list.
InitConvert ==
  /\ kind = "gemini"
  /\ showThinking = FALSE
  /\ messages \in SeqsUpTo(ChatMessages, MaxMessages)
  /\ contents = <<>>
  /\ converted = FALSE
  /\ StreamIdle
  /\ CallsIdle
  /\ RegIdle
  /\ AppIdle

ConvertMessages ==
  /\ ~converted
  /\ contents' = convertMessages(messages)
  /\ converted' = TRUE
  /\ UNCHANGED <<kind, showThinking, messages, streamVars, callVars, regVars, appVars>>

NextConvert == ConvertMessages

SpecConvert == InitConvert /\ [][NextConvert]_vars

\* ------------------------------------------------------------------ ProviderRegistry
\* A provider is an object with an id; two objects may carry the same id.
ProviderIds == {"openrouter", "ollama"}
Providers == [id : ProviderIds, object : {"first", "second"}]
\* the ids get() is asked for: the ids above and one never registered
LookupIds == ProviderIds \cup {"gemini"}

\* Map.prototype.get / values / set on the entries m, kept in insertion order
MapHas(m, k) == \E i \in 1..Len(m) : m[i].id = k
MapGet(m, k) == IF MapHas(m, k) THEN <<m[CHOOSE i \in 1..Len(m) : m[i].id = k]>> ELSE <<>>
MapValues(m) == m
\* A set that adds an entry even when the key is present.
MapSet_Duplicate(m, k, v) == Append(m, v)
MapSet(m, k, v) ==
  IF MapHas(m, k) THEN [i \in 1..Len(m) |-> IF m[i].id = k THEN v ELSE m[i]]
  ELSE Append(m, v)

\* A registry right after `new ProviderRegistry()`.
InitRegistry ==
  /\ kind = "openrouter"
  /\ showThinking = FALSE
  /\ providers = <<>>
  /\ history = <<>>
  /\ returned = NoReturn
  /\ StreamIdle
  /\ CallsIdle
  /\ ConvIdle
  /\ AppIdle

\* register(provider)
Register(p) ==
  /\ Len(history) < MaxRegistered
  /\ providers' = MapSet(providers, p.id, p)
  /\ history' = Append(history, p)
  /\ returned' = [op |-> "register", id |-> p.id, value |-> <<>>]
  /\ UNCHANGED <<kind, showThinking, streamVars, callVars, convVars, appVars>>

\* get(id): value is <<provider>>, or <<>> for undefined
Get(id) ==
  /\ returned' = [op |-> "get", id |-> id, value |-> MapGet(providers, id)]
  /\ UNCHANGED <<providers, history>>
  /\ UNCHANGED <<kind, showThinking, streamVars, callVars, convVars, appVars>>

\* list()
List ==
  /\ returned' = [op |-> "list", id |-> "", value |-> MapValues(providers)]
  /\ UNCHANGED <<providers, history>>
  /\ UNCHANGED <<kind, showThinking, streamVars, callVars, convVars, appVars>>

\* clear()
Clear ==
  /\ providers' = <<>>
  /\ history' = <<>>
  /\ returned' = [op |-> "clear", id |-> "", value |-> <<>>]
  /\ UNCHANGED <<kind, showThinking, streamVars, callVars, convVars, appVars>>

NextRegistry ==
  \/ \E p \in Providers : Register(p)
  \/ \E id \in LookupIds : Get(id)
  \/ List
  \/ Clear

SpecRegistry == InitRegistry /\ [][NextRegistry]_vars

\* ------------------------------------------------------------------ helpers of the properties
IsPrefix(a, b) == Len(a) <= Len(b) /\ SubSeq(b, 1, Len(a)) = a
IsSuffix(a, b) == Len(a) <= Len(b) /\ SubSeq(b, Len(b) - Len(a) + 1, Len(b)) = a

\* a can be obtained from b by deleting tokens
RECURSIVE IsSubseq(_, _)
IsSubseq(a, b) ==
  IF a = <<>> THEN TRUE
  ELSE IF b = <<>> THEN FALSE
  ELSE IF Head(a) = Head(b) THEN IsSubseq(Tail(a), Tail(b))
  ELSE IsSubseq(a, Tail(b))

DoneDeltas == {i \in 1..Len(emitted) : emitted[i].done}

\* The deltas a parser emits for a list of complete lines, up to and
\* including the terminal delta of a sentinel.
RECURSIVE RunLines(_, _, _, _)
RunLines(k, show, think, ls) ==
  IF ls = <<>> THEN <<>>
  ELSE LET r == LineStep(k, Head(ls), show, think) IN
       CASE r.act = "terminal" -> <<[content |-> <<>>, done |-> TRUE]>>
         [] r.act = "yield" ->
              <<[content |-> r.content, done |-> FALSE]>> \o RunLines(k, show, r.think, Tail(ls))
         [] r.act = "skip" -> RunLines(k, show, r.think, Tail(ls))

\* What the consumer receives when the whole body arrives in one read.
OneRead(k, show, body) ==
  LET ds == RunLines(k, show, FALSE, Front(SplitNL(body))) IN
  IF ds # <<>> /\ Last(ds).done THEN ds
  ELSE Append(ds, [content |-> <<>>, done |-> TRUE])

\* The message text a MiniMax data line carries, before the <think> filter.
RawContent(line) ==
  IF ~StartsWithData(line) THEN <<>>
  ELSE LET parsed == JSONparse(Trim(Slice6(line))) IN
       IF parsed.ok /\ parsed.shape = "oai" THEN parsed.text ELSE <<>>

RawContents == [i \in 1..Len(fed) |-> RawContent(fed[i].line)]
FullText == Concat(RawContents)
EmittedText == Concat([i \in 1..Len(emitted) |-> emitted[i].content])
EmittedContents ==
  [i \in 1..Cardinality({j \in 1..Len(emitted) : ~emitted[j].done}) |-> emitted[i].content]

\* The text outside the <think>...</think> blocks of t.
RECURSIVE Visible(_, _)
Visible(t, inside) ==
  IF t = <<>> THEN <<>>
  ELSE IF ~inside /\ OccursAt(t, OPEN, 1) THEN Visible(SubSeq(t, 3, Len(t)), TRUE)
  ELSE IF inside /\ OccursAt(t, CLOSE, 1) THEN Visible(SubSeq(t, 3, Len(t)), FALSE)
  ELSE IF inside THEN Visible(Tail(t), TRUE)
  ELSE <<Head(t)>> \o Visible(Tail(t), FALSE)

\* ------------------------------------------------------------------ C1
\* C1: in every run whose reads do not raise, the consumer receives at most
\* one delta with done = TRUE, that delta is the last one received, and a
\* consumer that pulls until the generator is exhausted has received exactly
\* one; nothing follows it, whatever lines or bytes follow the sentinel.
C1_ExactlyOneTerminal ==
  exit # "raised" =>
    /\ Cardinality(DoneDeltas) <= 1
    /\ \A i \in DoneDeltas : i = Len(emitted)
    /\ (exit = "exhausted" => Cardinality(DoneDeltas) = 1)

\* The sentinel was met, lines of the same read follow it, and the consumer
\* has pulled until exhaustion.
C1_Witness ==
  /\ exit = "exhausted"
  /\ fed # <<>> /\ Last(fed).act = "terminal"
  /\ lines # <<>>
  /\ Len(emitted) >= 2

\* ------------------------------------------------------------------ C2
\* C2 (as claimed): MiniMax stream, showThinking = false.  When no delta
\* holds a whole <think> (every opening delimiter is split across two
\* deltas), nothing of a delimiter or of the text between <think> and
\* </think> is emitted; and the deltas "<thi", "nk>hidden</think>Vis",
\* "ible" give "Vis" then "ible" only.
NoWholeOpening == \A i \in 1..Len(fed) : ~Includes(RawContents[i], OPEN)
SpecExample ==
  <<  <<"<thi">>, <<"nk>", "hidden", "</thi", "nk>", "Vis">>, <<"ible">>  >>
C2_SplitDelimiterSuppressed ==
  (kind = "minimax" /\ ~showThinking /\ NoWholeOpening) =>
    /\ IsSubseq(EmittedText, Visible(FullText, FALSE))
    /\ (RawContents = SpecExample => EmittedContents = << <<"Vis">>, <<"ible">> >>)

\* ------------------------------------------------------------------ C3
\* C3 (as claimed): MiniMax stream, showThinking = false.  For every delta:
\* when the filter is outside a block and the delta holds <think>, the text
\* before the first <think> is emitted for that delta; when the delta holds a
\* </think> that closes a block and no <think> after it, the text after the
\* last </think> is emitted for that delta.
TextBeforeOpen(c) == CutFromOpen(c)
TextAfterClose(c) == CutToClose(c)
ClosesBlock(c, before) ==
  /\ Includes(c, CLOSE)
  /\ before \/ (Includes(c, OPEN) /\ IndexOf(c, OPEN) < LastIndexOf(c, CLOSE))
  /\ ~(Includes(c, OPEN) /\ LastIndexOf(c, OPEN) > LastIndexOf(c, CLOSE))
C3_TextAroundBlockEmitted ==
  (kind = "minimax" /\ ~showThinking) =>
    \A i \in 1..Len(fed) :
      LET c == RawContents[i] IN
      /\ (~fed[i].before /\ Includes(c, OPEN)) => IsPrefix(TextBeforeOpen(c), fed[i].content)
      /\ ClosesBlock(c, fed[i].before) => IsSuffix(TextAfterClose(c), fed[i].content)

\* ------------------------------------------------------------------ C5
\* C5: the deltas received do not depend on where the reads end: at every
\* moment they are a prefix of what one read of the whole body gives, and a
\* consumer that pulls until exhaustion has received exactly that.
C5_ReadBoundariesIrrelevant ==
  exit # "raised" =>
    /\ IsPrefix(emitted, OneRead(kind, showThinking, stream))
    /\ (exit = "exhausted" => emitted = OneRead(kind, showThinking, stream))

\* A read ended inside a JSON payload; the next read completed the line and
\* its delta has been received.
C5_Witness ==
  /\ pc = "yielded"
  /\ joined
  /\ fed # <<>> /\ Last(fed).act = "yield"
  /\ Len(emitted) >= 2

\* ------------------------------------------------------------------ C6
\* C6: the reader lock is held only while the generator is inside its try
\* block; it is released once the body has closed (closing yield), once the
\* generator has ended, once a read has raised and once the consumer has
\* abandoned the sequence.
C6_LockReleased ==
  /\ (pc = "final" \/ exit \in {"exhausted", "abandoned", "raised"}) => ~locked
  /\ locked => pc \in {"read", "loop", "yielded", "terminal"}

\* The consumer abandoned the sequence after a content delta, before any
\* terminal delta, while bytes were still to come.
C6_Witness ==
  /\ exit = "abandoned"
  /\ emitted # <<>> /\ DoneDeltas = {}
  /\ pos < Len(stream)
  /\ ~locked

\* ------------------------------------------------------------------ C4
\* C4 (as claimed): whenever the response to chatStream has a status outside
\* 200..299 or has no body, chatStream rejects and hands no sequence to the
\* caller.
HandshakeFailed == ~transport.net /\ (~Ok(transport.status) \/ ~transport.hasBody)
C4_HandshakeFailureRejects ==
  (op = "chatStream" /\ HandshakeFailed) => (result.outcome = "rejected" /\ ~result.stream)

\* ------------------------------------------------------------------ C7
\* C7 (as claimed): whenever validate() returns valid = false, the result
\* carries a non-empty error string.
C7_InvalidCarriesError ==
  (op = "validate" /\ result.outcome = "resolved" /\ ~result.valid) => result.error # <<>>

\* ------------------------------------------------------------------ C8
\* C8: for every adapter and every transport outcome (200, another status, no
\* response at all, a body that is not JSON) validate() resolves to a
\* {valid, error?} result; it never rejects.
C8_ValidateNeverRejects ==
  op = "validate" =>
    /\ result.outcome = "resolved"
    /\ result.valid \in BOOLEAN
    /\ (result.valid => result.error = <<>>)

\* Gemini validate answered 500 with a body that is not JSON.
C8_Witness ==
  /\ op = "validate"
  /\ kind = "gemini"
  /\ ~transport.net /\ transport.status = 500 /\ transport.body = "text"
  /\ result.outcome = "resolved" /\ ~result.valid

\* ------------------------------------------------------------------ C9
\* C9 (as claimed): an OpenAICompatibleProvider constructed with an empty base
\* URL, or with an empty model id, answers validate() with valid = false and
\* the error naming the missing field, and issues no HTTP request.
C9_ConfigErrorBeforeNetwork ==
  (kind = "openai" /\ op = "validate" /\ (urlArg = <<>> \/ modelId = "")) =>
    /\ result.outcome = "resolved" /\ ~result.valid
    /\ result.requests = 0
    /\ result.error \in
         ((IF urlArg = <<>> THEN {<<"Base URL is required">>} ELSE {})
          \cup (IF modelId = "" THEN {<<"Model ID is required">>} ELSE {}))

\* ------------------------------------------------------------------ C10
\* C10 (as claimed): when chat() or chatStream() rejects and the response body
\* is an error envelope with error.message, the error raised carries that
\* message.
C10_EnvelopeMessageSurfaced ==
  (op \in {"chat", "chatStream"} /\ ~transport.net /\ transport.body = "error"
     /\ result.outcome = "rejected")
    => Includes(result.message, EnvelopeMessage)

\* ------------------------------------------------------------------ C11
\* C11 (as claimed): for every adapter, chat() rejects whenever the transport
\* answers with a status outside 200..299 or with a body that is an error
\* envelope ({"error": ...}); it never resolves with a ChatResponse then.
TransportFailed ==
  transport.net \/ ~Ok(transport.status) \/ BodyJSON(transport.body).hasError
C11_ChatRejectsOnFailure ==
  (op = "chat" /\ TransportFailed) => result.outcome = "rejected"

\* ------------------------------------------------------------------ C13
\* C13: GoogleAIProvider.chat rejects every status-200 response that carries
\* promptFeedback.blockReason, with or without candidate text, with an error
\* that starts with "Content blocked: "; no other outcome of chat carries
\* that error, and no blocked response is resolved.
ContentBlocked == IsPrefix(<<"Content blocked: ">>, result.message)
BlockedResponse ==
  /\ ~transport.net /\ transport.status = 200
  /\ BodyJSON(transport.body).blockReason # <<>>
C13_BlockedContentRejected ==
  (kind = "gemini" /\ op = "chat") =>
    /\ BlockedResponse => (result.outcome = "rejected" /\ ContentBlocked)
    /\ (result.outcome = "rejected" /\ ContentBlocked) => BlockedResponse

\* A status-200 response with a block reason and candidate text was rejected.
C13_Witness ==
  /\ kind = "gemini" /\ op = "chat"
  /\ transport.status = 200 /\ transport.body = "blockedText"
  /\ result.outcome = "rejected" /\ ContentBlocked

\* ------------------------------------------------------------------ C12
\* C12 (as claimed): for every message list, the converted contents hold no
\* system role; the non-system messages appear in their order, assistant as
\* "model" and user as "user"; and when the input holds system messages with
\* text, the output has a user turn and the texts of all system messages, in
\* order, open the text of its first user turn, so the system text is
\* present in the request.
NonSystem == SelectSeq(messages, LAMBDA m : m.role # "system")
SystemTexts ==
  LET sys == SelectSeq(messages, LAMBDA m : m.role = "system")
  IN  Concat([i \in 1..Len(sys) |-> sys[i].content])
HasSystem == \E i \in 1..Len(messages) : messages[i].role = "system"
GeminiRole(r) == IF r = "assistant" THEN "model" ELSE "user"
C12_SystemTextPrepended ==
  converted =>
    /\ \A i \in 1..Len(contents) : contents[i].role \in {"user", "model"}
    /\ NonSystem # <<>> =>
         /\ Len(contents) = Len(NonSystem)
         /\ \A i \in 1..Len(contents) :
              /\ contents[i].role = GeminiRole(NonSystem[i].role)
              /\ IsSuffix(NonSystem[i].content, contents[i].text)
    /\ (HasSystem /\ SystemTexts # <<>>) =>
         /\ FirstUser(contents) > 0
         /\ \E n \in 0..Len(contents[FirstUser(contents)].text) :
              IsSubseq(SystemTexts, SubSeq(contents[FirstUser(contents)].text, 1, n))

\* ------------------------------------------------------------------ C14
\* C14 (as claimed): MiniMax stream, showThinking = false, every delimiter
\* whole inside one delta.  What a delta emits is text of that delta lying
\* outside the <think>...</think> blocks of the text received, and a delta
\* that lies wholly inside a block gives no delta.
\* Whether the text t ends inside a block, having started inside or not.
RECURSIVE InsideAfter(_, _)
InsideAfter(t, inside) ==
  IF t = <<>> THEN inside
  ELSE IF ~inside /\ OccursAt(t, OPEN, 1) THEN InsideAfter(SubSeq(t, 3, Len(t)), TRUE)
  ELSE IF inside /\ OccursAt(t, CLOSE, 1) THEN InsideAfter(SubSeq(t, 3, Len(t)), FALSE)
  ELSE InsideAfter(Tail(t), inside)
\* inside a block when the i-th delta arrives
InsideBefore(i) == InsideAfter(Concat(SubSeq(RawContents, 1, i - 1)), FALSE)
\* no delimiter of c is cut by the end or the beginning of c
WholeDelimiters(c) ==
  \A j \in 1..Len(c) :
    /\ c[j] \in {"<thi", "</thi"} => (j < Len(c) /\ c[j + 1] = "nk>")
    /\ c[j] = "nk>" => (j > 1 /\ c[j - 1] \in {"<thi", "</thi"})
C14_BlockTextNeverEmitted ==
  (kind = "minimax" /\ ~showThinking
     /\ \A i \in 1..Len(fed) : WholeDelimiters(RawContents[i])) =>
    \A i \in 1..Len(fed) :
      /\ IsSubseq(fed[i].content, Visible(RawContents[i], InsideBefore(i)))
      /\ (InsideBefore(i) /\ RawContents[i] # <<>> /\ ~Includes(RawContents[i], CLOSE))
           => fed[i].act = "skip"

\* ------------------------------------------------------------------ C15
\* The text t without its complete <think>...</think> blocks: reading from
\* the left, an opening delimiter that a closing delimiter follows is
\* dropped together with everything up to the first such closing delimiter.
RECURSIVE WithoutBlocks(_)
WithoutBlocks(t) ==
  IF t = <<>> THEN <<>>
  ELSE IF OccursAt(t, OPEN, 1) /\ Includes(SubSeq(t, 3, Len(t)), CLOSE)
       THEN LET rest == SubSeq(t, 3, Len(t))
            IN  WithoutBlocks(SubSeq(rest, IndexOf(rest, CLOSE) + 2, Len(rest)))
  ELSE <<Head(t)>> \o WithoutBlocks(Tail(t))
MinimaxChatAnswered ==
  kind = "minimax" /\ op = "chat" /\ result.outcome = "resolved" /\ answer # <<>>

SSEDataLine(line) ==
  /\ Len(line) >= 3
  /\ line[1] = "data: " /\ line[2] = "{oai:" /\ Last(line) = "}"
  /\ IsText(SubSeq(line, 3, Len(line) - 1))
SSEContent(line) == SubSeq(line, 3, Len(line) - 1)
SSEKind ==
  \/ kind \in {"openrouter", "openai"}
  \/ /\ kind = "minimax"
     /\ \A i \in 1..Len(fed) : \A j \in 1..Len(fed[i].line) :
          fed[i].line[j] \notin {"<thi", "</thi", "nk>"}
\* the deltas the lines visited so far gave, in line order
FedDeltas ==
  LET given == SelectSeq(fed, LAMBDA f : f.act # "skip")
  IN  [i \in 1..Len(given) |-> [content |-> given[i].content, done |-> given[i].act = "terminal"]]
FedLines == [i \in 1..Len(fed) |-> fed[i].line]

\* C16: SSE framing (OpenRouter, OpenAI-compatible, MiniMax without think
\* tags).  A complete `data: {json}` line with non-empty content gives one
\* content delta carrying exactly that content, one with empty content gives
\* no delta, the line `data: [DONE]` gives the terminal delta, and the deltas
\* are received in line order; the lines for "Hel", "lo", [DONE] give "Hel",
\* "lo", terminal.
C16_SSEFraming ==
  SSEKind =>
    /\ \A i \in 1..Len(fed) :
         LET line == fed[i].line IN
         /\ (SSEDataLine(line) /\ SSEContent(line) # <<>>) =>
              (fed[i].act = "yield" /\ fed[i].content = SSEContent(line))
         /\ (SSEDataLine(line) /\ SSEContent(line) = <<>>) => fed[i].act = "skip"
         /\ line = <<"data: ", "[DONE]">> => fed[i].act = "terminal"
    /\ IsPrefix(FedDeltas, emitted)
    /\ Len(emitted) <= Len(FedDeltas) + 1
    /\ FedLines = << <<"data: ", "{oai:", "Hel", "}">>, <<"data: ", "{oai:", "lo", "}">>,
                     <<"data: ", "[DONE]">> >>
         => emitted = << [content |-> <<"Hel">>, done |-> FALSE],
                         [content |-> <<"lo">>, done |-> FALSE],
                         [content |-> <<>>, done |-> TRUE] >>

\* The lines for "Hel", "lo" and [DONE] were read and their deltas received.
C16_Witness ==
  /\ kind = "openrouter"
  /\ FedLines = << <<"data: ", "{oai:", "Hel", "}">>, <<"data: ", "{oai:", "lo", "}">>,
                   <<"data: ", "[DONE]">> >>
  /\ Len(emitted) = 3 /\ emitted[3].done
  /\ exit = "exhausted"

\* ------------------------------------------------------------------ C17
\* A line of the Ollama dialect that is one JSON object, its message.content
\* and its done flag; and a line that is the JSON value null.
OllamaObjectLine(line) ==
  LET t == Trim(line) IN
  /\ Len(t) >= 2
  /\ Head(t) = "{oll:" /\ Last(t) \in {":f}", ":t}"}
  /\ IsText(SubSeq(t, 2, Len(t) - 1))
OllamaContent(line) == LET t == Trim(line) IN SubSeq(t, 2, Len(t) - 1)
OllamaDone(line) == Last(Trim(line)) = ":t}"
ParsesAsJSON(line) == OllamaObjectLine(line) \/ Trim(line) = <<"null">>
OllamaExample ==
  FedLines = << <<"{oll:", "Hi", ":f}">>, <<"{oll:", ":t}">> >>
    => emitted = << [content |-> <<"Hi">>, done |-> FALSE], [content |-> <<>>, done |-> TRUE] >>

Malformed(k, line) ==
  CASE k = "ollama" -> Trim(line) # <<>> /\ ~JSONparse(line).ok
    [] k = "gemini" -> StartsWithData(line) /\ ~JSONparse(Slice6(line)).ok
    [] k = "openrouter" ->
         StartsWithData(line) /\ Slice6(line) # <<"[DONE]">> /\ ~JSONparse(Slice6(line)).ok
    [] OTHER ->
         /\ StartsWithData(line)
         /\ Trim(Slice6(line)) # <<"[DONE]">>
         /\ ~JSONparse(Trim(Slice6(line))).ok
\* The body without its complete malformed lines.
WithoutMalformed(k, body) ==
  LET parts == SplitNL(body)
      kept  == SelectSeq(Front(parts), LAMBDA l : ~Malformed(k, l))
  IN  JoinLines(kept) \o Last(parts)

\* C18: in every parser a complete line that is not JSON gives no delta,
\* leaves the <think> filter as it was and does not end the stream: what a
\* consumer has received when it stops, after any delta or at exhaustion,
\* is what the same body without its malformed lines gives.
C18_MalformedLineSkipped ==
  /\ \A i \in 1..Len(fed) :
       Malformed(kind, fed[i].line) =>
         /\ fed[i].act = "skip"
         /\ i < Len(fed) => fed[i + 1].before = fed[i].before
  /\ exit \in {"exhausted", "abandoned"} =>
       LET without == OneRead(kind, showThinking, WithoutMalformed(kind, stream)) IN
       /\ IsPrefix(emitted, without)
       /\ exit = "exhausted" => emitted = without

\* A malformed line stood between two lines that gave content deltas, and
\* the consumer pulled until exhaustion.
C18_Witness ==
  /\ exit = "exhausted"
  /\ Len(fed) = 3
  /\ fed[1].act = "yield" /\ Malformed(kind, fed[2].line) /\ fed[3].act = "yield"
  /\ Len(emitted) = 3

\* ------------------------------------------------------------------ C19
\* The models request failed or its answer is malformed: no response, a
\* status of 400 or more, a body that is not the models envelope.
ListFailed == transport.net \/ transport.status >= 400 \/ transport.body # "ok"

\* C19: for every adapter and every transport outcome listModels() resolves:
\* OpenRouter with its 4 static ids when the request fails or is malformed,
\* MiniMax with its 2 entries and no request, Ollama with the empty list on
\* failure, the generic adapter with one entry for the configured model, and
\* Gemini with its static list on failure.
C19_ListModelsNeverRejects ==
  op = "listModels" =>
    /\ result.outcome = "resolved"
    /\ kind = "openrouter" =>
         result.models = (IF ListFailed THEN OpenRouterFallback ELSE ServerModels)
    /\ kind = "openrouter" /\ ListFailed => Len(result.models) = 4
    /\ kind = "minimax" => (result.models = MinimaxModels /\ result.requests = 0)
    /\ kind = "ollama" /\ ListFailed => result.models = <<>>
    /\ kind = "openai" => result.models = <<modelId>>
    /\ kind = "gemini" /\ ListFailed => result.models = GeminiFallback

\* Ollama's models request was answered 200 with a list whose entry is null.
C19_Witness ==
  /\ op = "listModels" /\ kind = "ollama"
  /\ transport.status = 200 /\ transport.body = "nullEntry"
  /\ result.outcome = "resolved" /\ result.models = <<>>

\* ------------------------------------------------------------------ C20
\* The provider registered last under id since the last clear: <<provider>>,
\* or <<>> when there is none.
LastRegistered(id) ==
  LET at == {i \in 1..Len(history) : history[i].id = id}
  IN  IF at = {} THEN <<>>
      ELSE <<history[CHOOSE i \in at : \A j \in at : j <= i]>>
RegisteredIds == {history[i].id : i \in 1..Len(history)}

\* C20: for any sequence of register / get / list / clear, get(id) returns
\* the provider registered last under id since the last clear, or undefined
\* when there is none; list() holds exactly one entry per registered id,
\* the provider registered last under it; and get and list leave the
\* registry as it was.
C20_RegistryLookup ==
  /\ [](returned.op = "get" => returned.value = LastRegistered(returned.id))
  /\ [](returned.op = "list" =>
          /\ Len(returned.value) = Cardinality(RegisteredIds)
          /\ \A id \in RegisteredIds :
               \E i \in 1..Len(returned.value) : <<returned.value[i]>> = LastRegistered(id))
  /\ [][returned'.op \in {"get", "list"} => providers' = providers]_vars

\* An id was registered twice with two objects, and get returned the second.
C20_Witness ==
  /\ Len(history) >= 2
  /\ history[1].id = history[2].id /\ history[1] # history[2]
  /\ returned.op = "get" /\ returned.id = history[1].id
  /\ returned.value = <<history[2]>>
  /\ Len(providers) = 1

\* ------------------------------------------------------------------ C23
HasChatCompletions(u) ==
  \E i \in 1..(Len(u) - 1) : u[i] = "/chat" /\ u[i + 1] = "/completions"
EndsWith(u, tok) == u # <<>> /\ u[Len(u)] = tok
\* the configured URL without its trailing slashes
Stripped(u) ==
  LET keep == {n \in 0..Len(u) : \A i \in (n + 1)..Len(u) : u[i] = "/"}
  IN  SubSeq(u, 1, CHOOSE n \in keep : \A m \in keep : n <= m)

\* C23: the base URL of an OpenAICompatibleProvider is the configured URL
\* without trailing slashes, followed by /v1/chat/completions when it has no
\* completions path, by /chat/completions only when it ends in /v1, and by
\* nothing when it ends in /completions; the rule leaves its own result
\* unchanged; and every request of validate, chat and chatStream goes to it.
C23_EndpointInference ==
  kind = "openai" =>
    /\ LET u == Stripped(urlArg) IN
        baseUrl = (IF HasChatCompletions(u) \/ EndsWith(u, "/completions") THEN u
                   ELSE IF EndsWith(u, "/v1") THEN u \o <<"/chat", "/completions">>
                   ELSE u \o <<"/v1", "/chat", "/completions">>)
    /\ OpenAICompatibleProvider_constructor(baseUrl) = baseUrl
    /\ (op \in {"validate", "chat", "chatStream"} /\ result.requests > 0) => target = baseUrl

\* A URL ending in /v1 and a slash was configured, and chatStream went to
\* the URL with /chat/completions appended.
C23_Witness ==
  /\ kind = "openai"
  /\ urlArg = <<"h", "/v1", "/">>
  /\ op = "chatStream"
  /\ target = <<"h", "/v1", "/chat", "/completions">>

\* ------------------------------------------------------------------ C24
\* t holds a <think> with no </think> after it
UnclosedOpen(t) ==
  \E i \in 1..Len(t) :
    /\ OccursAt(t, OPEN, i)
    /\ \A j \in (i + 1)..Len(t) : ~OccursAt(t, CLOSE, j)

\* C24 (as claimed): MiniMax stream, showThinking = false, every delimiter
\* whole inside one delta.  After any sequence of deltas the filter is inside
\* a block exactly when the text received so far holds a <think> with no
\* later </think>; so after a delta with a complete <think>...</think> block
\* the filter is outside.
C24_FilterStateMatchesText ==
  (kind = "minimax" /\ ~showThinking
     /\ \A i \in 1..Len(fed) : WholeDelimiters(RawContents[i])) =>
    inThinkBlock = UnclosedOpen(FullText)

\* ------------------------------------------------------------------ C25
\* A complete Gemini line `data: {json}` with candidates, and its
\* candidates[0].content.parts[0].text.
GeminiDataLine(line) ==
  /\ Len(line) >= 3
  /\ line[1] = "data: " /\ line[2] = "{gem:" /\ Last(line) = "}"
  /\ IsText(SubSeq(line, 3, Len(line) - 1))
GeminiText(line) == SubSeq(line, 3, Len(line) - 1)
CompleteLines == Front(SplitNL(stream))

\* C25: Gemini stream.  The terminal delta is received only once the body
\* has closed and every complete line has been visited; no line (a
\* `data: [DONE]` line, a payload with empty text or without candidates, a
\* malformed line) gives a terminal delta; and every complete line with
\* non-empty text gives a content delta with that text, received in line
\* order before the terminal delta.
C25_GeminiEndsAtClosure ==
  kind = "gemini" =>
    /\ \A i \in 1..Len(fed) :
         /\ fed[i].act # "terminal"
         /\ (GeminiDataLine(fed[i].line) /\ GeminiText(fed[i].line) # <<>>) =>
              (fed[i].act = "yield" /\ fed[i].content = GeminiText(fed[i].line))
    /\ DoneDeltas # {} =>
         /\ pos = Len(stream)
         /\ FedLines = CompleteLines
         /\ emitted = Append(FedDeltas, [content |-> <<>>, done |-> TRUE])
    /\ DoneDeltas = {} => IsPrefix(emitted, FedDeltas)

\* A `data: [DONE]` line was followed by a line with text; the text was
\* received, then the body closed and the terminal delta came.
C25_Witness ==
  /\ kind = "gemini"
  /\ Len(fed) >= 2
  /\ fed[1].line = <<"data: ", "[DONE]">>
  /\ fed[2].act = "yield"
  /\ exit = "exhausted"
  /\ Len(emitted) >= 2 /\ emitted[1].content = fed[2].content

\* ------------------------------------------------------------------ C30
\* A `data: [DONE]` line, alone or followed by spaces or a carriage return.
SentinelLine(line) ==
  /\ Len(line) >= 2
  /\ line[1] = "data: " /\ line[2] = "[DONE]"
  /\ \A i \in 3..Len(line) : line[i] \in {" ", "\r"}

\* C30: the OpenRouter, OpenAI-compatible and MiniMax parsers end the stream
\* at every `data: [DONE]` line, trailing whitespace or carriage return
\* included, and give the same deltas on the same body.
C30_SameSentinelLines ==
  kind \in {"openrouter", "openai", "minimax"} =>
    /\ \A i \in 1..Len(fed) : SentinelLine(fed[i].line) => fed[i].act = "terminal"
    /\ (exit \in {"exhausted", "abandoned"} /\ kind # "minimax") =>
         /\ OneRead("openrouter", FALSE, stream) = OneRead("openai", FALSE, stream)
         /\ OneRead("openai", FALSE, stream) = OneRead("minimax", TRUE, stream)

\* ------------------------------------------------------------------ VaultAIPlugin
\* onChange handlers of the settings tab the model lets run
MaxSaves == 3

PluginProviderIds == {"openrouter", "google-ai", "ollama", "minimax", "openai-compatible"}
\* the values the settings tab writes into a field
FieldValues ==
  [openrouterApiKey |-> {"", "k1", "k2"},
   googleApiKey |-> {"", "k1"},
   minimaxApiKey |-> {"", "k1"},
   minimaxShowThinking |-> {TRUE, FALSE},
   customApiUrl |-> {<<>>, <<"h", "/v1">>},
   customApiKey |-> {"", "k1"},
   selectedModel |-> {"m1", "m2"}]
CustomModels == {"", "m1"}

\* An adapter object: its id, the initializeProviders run that constructed it
\* (two objects are the same object iff id and run agree) and the constructor
\* arguments it keeps in its fields.  ollamaUrl and minimaxRegion are left at
\* their defaults.
Adapter(id, g, key, url, model, show) ==
  [id |-> id, object |-> g, apiKey |-> key, baseUrl |-> url, modelId |-> model,
   showThinking |-> show]

\* getDefaultModel(provider)
getDefaultModel(provider, s) ==
  CASE provider = "openrouter" -> "anthropic/claude-3.5-sonnet"
    [] provider = "google-ai" -> "gemini-2.0-flash"
    [] provider = "ollama" -> "llama3.2"
    [] provider = "minimax" -> "MiniMax-M2.1"
    [] provider = "openai-compatible" -> s.customModel
    [] OTHER -> ""

\* The five conditional registrations of initializeProviders on the map m0.
RegisterAll(m0, s, g) ==
  LET m1 == IF s.openrouterApiKey # ""
            THEN MapSet(m0, "openrouter",
                        Adapter("openrouter", g, s.openrouterApiKey, <<>>, "", FALSE))
            ELSE m0
      m2 == IF s.googleApiKey # ""
            THEN MapSet(m1, "google-ai",
                        Adapter("google-ai", g, s.googleApiKey, <<>>, "", FALSE))
            ELSE m1
      m3 == MapSet(m2, "ollama", Adapter("ollama", g, "", <<>>, "", FALSE))
      m4 == IF s.minimaxApiKey # ""
            THEN MapSet(m3, "minimax",
                        Adapter("minimax", g, s.minimaxApiKey, <<>>, "",
                                s.minimaxShowThinking))
            ELSE m3
      m5 == IF s.customApiUrl # <<>> /\ s.customModel # ""
            THEN MapSet(m4, "openai-compatible",
                        Adapter("openai-compatible", g, s.customApiKey,
                                OpenAICompatibleProvider_constructor(s.customApiUrl),
                                s.customModel, FALSE))
            ELSE m4
  IN  m5

\* A rebuild that registers over the map as it is, without clear().
initializeProviders_NoClear(m, s, g) == RegisterAll(m, s, g)
\* initializeProviders(): the registry map after the call, from the map m
\* before it, the settings s and the number g of this run.
initializeProviders(m, s, g) == RegisterAll(<<>>, s, g)

\* The settings loadSettings() may produce: the defaults, or stored ones.
LoadedSettings ==
  { DEFAULT_SETTINGS,
    [DEFAULT_SETTINGS EXCEPT !.openrouterApiKey = "k1", !.selectedModel = "m1"] }

\* The plugin after onload(): settings loaded, registry built once.
InitPlugin ==
  /\ kind = "openrouter"
  /\ showThinking = FALSE
  /\ settings \in LoadedSettings
  /\ generation = 1
  /\ providers = initializeProviders(<<>>, settings, 1)
  /\ history = providers
  /\ returned = NoReturn
  /\ pending = 0 /\ lastSave = "none" /\ started = 0
  /\ StreamIdle /\ CallsIdle /\ ConvIdle /\ ChatIdle /\ PairIdle

\* A handler that changes the field and does not call saveSettings().
OnChange_NoSave(field, value) ==
  /\ started < MaxSaves
  /\ settings' = [settings EXCEPT ![field] = value]
  /\ started' = started + 1
  /\ UNCHANGED <<pending, generation, lastSave>>
  /\ UNCHANGED <<kind, showThinking, streamVars, callVars, convVars, regVars,
                 chatVars, pairVars>>
\* onChange of a text field, toggle or model dropdown of the settings tab:
\* the field is assigned, then saveSettings() is called and suspends in
\* `await this.saveData(this.settings)`.
OnChange(field, value) ==
  /\ started < MaxSaves
  /\ settings' = [settings EXCEPT ![field] = value]
  /\ started' = started + 1
  /\ pending' = pending + 1
  /\ UNCHANGED <<generation, lastSave>>
  /\ UNCHANGED <<kind, showThinking, streamVars, callVars, convVars, regVars,
                 chatVars, pairVars>>

\* onChange of the provider dropdown: provider and a default model, then save.
OnChangeProvider(value) ==
  /\ started < MaxSaves
  /\ settings' = [settings EXCEPT !.provider = value,
                                  !.selectedModel = getDefaultModel(value, settings)]
  /\ started' = started + 1
  /\ pending' = pending + 1
  /\ UNCHANGED <<generation, lastSave>>
  /\ UNCHANGED <<kind, showThinking, streamVars, callVars, convVars, regVars,
                 chatVars, pairVars>>

\* onChange of the custom model field: customModel and selectedModel, then save.
OnChangeCustomModel(value) ==
  /\ started < MaxSaves
  /\ settings' = [settings EXCEPT !.customModel = value, !.selectedModel = value]
  /\ started' = started + 1
  /\ pending' = pending + 1
  /\ UNCHANGED <<generation, lastSave>>
  /\ UNCHANGED <<kind, showThinking, streamVars, callVars, convVars, regVars,
                 chatVars, pairVars>>

\* saveData resolves for one pending saveSettings(): initializeProviders()
\* runs on the settings as they are now.
SaveSettingsResolve ==
  /\ pending > 0
  /\ pending' = pending - 1
  /\ generation' = generation + 1
  /\ providers' = initializeProviders(providers, settings, generation + 1)
  /\ history' = providers'
  /\ returned' = [op |-> "register", id |-> Last(providers').id, value |-> <<>>]
  /\ lastSave' = "resolved"
  /\ UNCHANGED <<settings, started>>
  /\ UNCHANGED <<kind, showThinking, streamVars, callVars, convVars, chatVars, pairVars>>

\* saveData rejects for one pending saveSettings(): the call rejects at the
\* await, nothing after it runs.
SaveSettingsReject ==
  /\ pending > 0
  /\ pending' = pending - 1
  /\ lastSave' = "rejected"
  /\ UNCHANGED <<settings, generation, started>>
  /\ UNCHANGED <<kind, showThinking, streamVars, callVars, convVars, regVars,
                 chatVars, pairVars>>

\* getActiveProvider()
GetActiveProvider ==
  /\ returned' = [op |-> "get", id |-> settings.provider,
                  value |-> MapGet(providers, settings.provider)]
  /\ UNCHANGED <<providers, history>>
  /\ UNCHANGED <<kind, showThinking, streamVars, callVars, convVars, appVars>>

NextPlugin ==
  \/ \E field \in DOMAIN FieldValues : \E value \in FieldValues[field] :
       OnChange(field, value)
  \/ \E value \in PluginProviderIds : OnChangeProvider(value)
  \/ \E value \in CustomModels : OnChangeCustomModel(value)
  \/ SaveSettingsResolve
  \/ SaveSettingsReject
  \/ GetActiveProvider

SpecPlugin == InitPlugin /\ [][NextPlugin]_vars

\* ------------------------------------------------------------------ C21
\* The ids the registry must hold for the settings s.
ExpectedIds(s) ==
  {"ollama"}
    \cup (IF s.openrouterApiKey # "" THEN {"openrouter"} ELSE {})
    \cup (IF s.googleApiKey # "" THEN {"google-ai"} ELSE {})
    \cup (IF s.minimaxApiKey # "" THEN {"minimax"} ELSE {})
    \cup (IF s.customApiUrl # <<>> /\ s.customModel # "" THEN {"openai-compatible"} ELSE {})
IdsOf(m) == {m[i].id : i \in 1..Len(m)}
OneEntryPerId(m) == \A i, j \in 1..Len(m) : m[i].id = m[j].id => i = j

\* C21: after every run of initializeProviders (the one of onload and the
\* one of each saveSettings) the registry holds one entry per expected id and
\* no other entry, and every entry is an object constructed by that run: none
\* of the objects registered before the run is still registered.
C21_RegistryRebuilt ==
  /\ IdsOf(providers) = ExpectedIds(settings)
  /\ OneEntryPerId(providers)
  /\ \A i \in 1..Len(providers) : providers[i].object = generation
  /\ [][generation' # generation =>
          /\ IdsOf(providers') = ExpectedIds(settings')
          /\ OneEntryPerId(providers')
          /\ \A i \in 1..Len(providers') :
               /\ providers'[i].object = generation'
               /\ \A j \in 1..Len(providers) : providers'[i] # providers[j]]_vars

\* A rebuild after the OpenRouter key was removed and a MiniMax key entered:
\* the registry has lost 'openrouter' and gained 'minimax'.
C21_Witness ==
  /\ generation >= 2 /\ lastSave = "resolved" /\ pending = 0
  /\ settings.openrouterApiKey = "" /\ settings.minimaxApiKey # ""
  /\ IdsOf(providers) = {"ollama", "minimax"}
  /\ started = 2

\* ------------------------------------------------------------------ C29
\* Every registered adapter holds the values the settings s hold now.
BuiltFrom(m, s) ==
  \A i \in 1..Len(m) :
    /\ m[i].id = "openrouter" => m[i].apiKey = s.openrouterApiKey
    /\ m[i].id = "google-ai" => m[i].apiKey = s.googleApiKey
    /\ m[i].id = "minimax" =>
         (m[i].apiKey = s.minimaxApiKey /\ m[i].showThinking = s.minimaxShowThinking)
    /\ m[i].id = "openai-compatible" =>
         (m[i].apiKey = s.customApiKey /\ m[i].modelId = s.customModel)

\* C29: overlapping saveSettings calls.  Whenever no call is pending and the
\* call that finished last resolved, the registry holds the ids the current
\* settings ask for, each adapter built from the current settings; and a call
\* whose saveData rejects leaves the registry as it was.
C29_RegistryFollowsSettings ==
  /\ [](pending = 0 /\ lastSave = "resolved" =>
          /\ IdsOf(providers) = ExpectedIds(settings)
          /\ OneEntryPerId(providers)
          /\ BuiltFrom(providers, settings))
  /\ [][(pending' < pending /\ lastSave' = "rejected") =>
          (providers' = providers /\ generation' = generation)]_vars

\* While a save is pending, getActiveProvider has returned the OpenRouter
\* adapter that still holds the key of the settings before the change.
C29_Witness ==
  /\ pending > 0
  /\ settings.provider = "openrouter"
  /\ returned.op = "get" /\ returned.value # <<>>
  /\ returned.value[1].apiKey # settings.openrouterApiKey
  /\ settings.openrouterApiKey # ""

\* ------------------------------------------------------------------ two streams
\* lines in the body of each of the two streams
MaxPairLines == 2

\* An adapter's fields that its methods read: which class it is and, for
\* MiniMax, showThinking.
PairConfigs ==
  { [kind |-> "minimax", showThinking |-> FALSE],
    [kind |-> "openai", showThinking |-> FALSE] }
PairLines ==
  { <<"data: ", "{oai:", "before", "<thi", "nk>", "hidden", "}">>,
    <<"data: ", "{oai:", "ible", "}">>,
    <<"data: ", "[DONE]">> }
PairBodies == SeqsUpTo(PairLines, MaxPairLines)
PairMethods == {"validate", "listModels", "chat"}

\* A generator not yet created.
NoGen ==
  [adapter |-> 0, body |-> <<>>, rest |-> <<>>, inThinkBlock |-> FALSE,
   deltas |-> <<>>, state |-> "none"]

\* Two adapters constructed, no stream taken from them yet.
InitPair ==
  /\ kind = "minimax"
  /\ showThinking = FALSE
  /\ adapters \in [1..2 -> PairConfigs]
  /\ gens = [g \in 1..2 |-> NoGen]
  /\ StreamIdle /\ CallsIdle /\ ConvIdle /\ RegIdle /\ PluginIdle /\ ChatIdle

\* validate(), listModels() or chat() on adapter a: the methods read the
\* adapter's fields and assign none.
PairCall(a, method) ==
  /\ op' = method
  /\ UNCHANGED <<urlArg, baseUrl, modelId, transport, answer, target, result>>
  /\ UNCHANGED <<adapters, gens>>
  /\ UNCHANGED <<kind, showThinking, streamVars, convVars, regVars, pluginVars, chatVars>>

\* chatStream() on adapter a resolves with a stream over the body: a new
\* generator whose buffer and inThinkBlock are its own local variables.
PairChatStream(g, a, body) ==
  /\ gens[g].state = "none"
  /\ gens' = [gens EXCEPT ![g] =
                [adapter |-> a, body |-> body, rest |-> body, inThinkBlock |-> FALSE,
                 deltas |-> <<>>, state |-> "open"]]
  /\ UNCHANGED adapters
  /\ UNCHANGED <<kind, showThinking, streamVars, callVars, convVars, regVars,
                 pluginVars, chatVars>>

\* The next line of generator g, with a filter flag that lives on the
\* adapter: every generator of that adapter sees the new value.
PairNext_SharedFilter(g) ==
  /\ gens[g].state = "open"
  /\ LET gen == gens[g]
         cfg == adapters[gen.adapter]
         terminal == [content |-> <<>>, done |-> TRUE]
     IN  IF gen.rest = <<>>
         THEN gens' = [gens EXCEPT ![g].deltas = Append(gen.deltas, terminal),
                                   ![g].state = "done"]
         ELSE LET r == LineStep(cfg.kind, Head(gen.rest), cfg.showThinking,
                                gen.inThinkBlock)
                  shared == [h \in 1..2 |->
                               IF gens[h].adapter = gen.adapter
                               THEN [gens[h] EXCEPT !.inThinkBlock = r.think]
                               ELSE gens[h]]
              IN  CASE r.act = "terminal" ->
                         gens' = [shared EXCEPT ![g].deltas = Append(gen.deltas, terminal),
                                                ![g].state = "done"]
                    [] r.act = "yield" ->
                         gens' = [shared EXCEPT
                                    ![g].deltas = Append(gen.deltas,
                                                    [content |-> r.content, done |-> FALSE]),
                                    ![g].rest = Tail(gen.rest)]
                    [] r.act = "skip" ->
                         gens' = [shared EXCEPT ![g].rest = Tail(gen.rest)]
  /\ UNCHANGED adapters
  /\ UNCHANGED <<kind, showThinking, streamVars, callVars, convVars, regVars,
                 pluginVars, chatVars>>
\* The consumer of stream g asks for more and generator g handles its next
\* line (or, its lines used up, the end of the body) with the loop body of
\* its adapter's parser.
PairNext(g) ==
  /\ gens[g].state = "open"
  /\ LET gen == gens[g]
         cfg == adapters[gen.adapter]
         terminal == [content |-> <<>>, done |-> TRUE]
     IN  IF gen.rest = <<>>
         THEN gens' = [gens EXCEPT ![g].deltas = Append(gen.deltas, terminal),
                                   ![g].state = "done"]
         ELSE LET r == LineStep(cfg.kind, Head(gen.rest), cfg.showThinking,
                                gen.inThinkBlock)
              IN  CASE r.act = "terminal" ->
                         gens' = [gens EXCEPT ![g].deltas = Append(gen.deltas, terminal),
                                              ![g].state = "done"]
                    [] r.act = "yield" ->
                         gens' = [gens EXCEPT
                                    ![g].deltas = Append(gen.deltas,
                                                    [content |-> r.content, done |-> FALSE]),
                                    ![g].rest = Tail(gen.rest),
                                    ![g].inThinkBlock = r.think]
                    [] r.act = "skip" ->
                         gens' = [gens EXCEPT ![g].rest = Tail(gen.rest),
                                              ![g].inThinkBlock = r.think]
  /\ UNCHANGED adapters
  /\ UNCHANGED <<kind, showThinking, streamVars, callVars, convVars, regVars,
                 pluginVars, chatVars>>

NextPair ==
  \/ \E a \in 1..2 : \E method \in PairMethods : PairCall(a, method)
  \* stream 1 is taken from adapter 1, stream 2 from either adapter
  \/ \E g \in 1..2 : \E a \in 1..g : \E body \in PairBodies : PairChatStream(g, a, body)
  \/ \E g \in 1..2 : PairNext(g)

SpecPair == InitPair /\ [][NextPair]_vars

\* ------------------------------------------------------------------ C22
\* C22: no adapter method and no step of a stream changes an adapter's
\* fields, and whatever the interleaving of two streams, each stream gives
\* the deltas its body gives when it is consumed alone: a prefix of them
\* while it is open, all of them once it has ended.
C22_StreamsIndependent ==
  /\ [][adapters' = adapters]_vars
  /\ [](\A g \in 1..2 :
          gens[g].state # "none" =>
            LET cfg == adapters[gens[g].adapter]
                alone == OneRead(cfg.kind, cfg.showThinking, JoinLines(gens[g].body))
            IN  /\ IsPrefix(gens[g].deltas, alone)
                /\ gens[g].state = "done" => gens[g].deltas = alone)

\* Two streams of one MiniMax adapter with think suppression: the first has
\* entered a think block, and the second, started before that, has ended
\* with the delta of its own line.
C22_Witness ==
  /\ gens[1].state = "open" /\ gens[2].state = "done"
  /\ gens[1].adapter = gens[2].adapter
  /\ adapters[gens[1].adapter] = [kind |-> "minimax", showThinking |-> FALSE]
  /\ gens[1].inThinkBlock /\ gens[1].rest # <<>>
  /\ gens[2].deltas = << [content |-> <<"ible">>, done |-> FALSE],
                         [content |-> <<>>, done |-> TRUE] >>

\* ------------------------------------------------------------------ ChatView
\* sendMessage calls, content deltas of one stream, model changes in the
\* settings tab while the view is open
MaxSends == 2
MaxDeltas == 1
MaxModelChanges == 1

\* What the input box holds when sendMessage runs, trimmed, in tokens: the
\* first token of a slash command is the command.
ChatInputs == { <<>>, <<"hi">>, <<"/clear">>, <<"/generate", " ", "t">> }
StartsWithSlash(text) == text # <<>> /\ Head(text) \in {"/clear", "/generate"}
DeltaContents == { <<"a">> }
\* response.text of a non-streaming chat(): empty, or a text
ResponseTexts == { <<>>, <<"F">> }
SystemPrompt == [role |-> "system", content |-> <<"sys">>]

\* A sendMessage or cmdGenerate call suspended at an await: where it is and
\* its local variables.  chats counts the chat() calls it has issued;
\* streamModel / chatModel are the `model` of its chatStream / chat request.
Call(cmd, text, provider) ==
  [cmd |-> cmd, pc |-> IF cmd = "send" THEN "prompt" ELSE "chat", text |-> text,
   provider |-> provider, messages |-> <<>>, streamModel |-> "", fullResponse |-> <<>>,
   gotResponse |-> FALSE, deltas |-> 0, chats |-> IF cmd = "send" THEN 0 ELSE 1,
   chatModel |-> IF cmd = "send" THEN "" ELSE settings.selectedModel,
   chatMessages |-> <<>>]

Without(q, i) == SubSeq(q, 1, i - 1) \o SubSeq(q, i + 1, Len(q))

\* The view after onOpen(), on a plugin after onload().
InitChat ==
  /\ kind = "openrouter"
  /\ showThinking = FALSE
  /\ settings \in LoadedSettings
  /\ generation = 1
  /\ providers = initializeProviders(<<>>, settings, 1)
  /\ history = providers
  /\ returned = NoReturn
  /\ pending = 0 /\ lastSave = "none" /\ started = 0
  /\ isStreaming = FALSE /\ conversationHistory = <<>> /\ running = <<>> /\ sends = 0
  /\ StreamIdle /\ CallsIdle /\ ConvIdle /\ PairIdle

\* clearChat(): the New-chat button, or the /clear command.
clearChat == <<>>

\* A sendMessage without the isStreaming test.
SendMessage_NoGuard(text) ==
  /\ sends < MaxSends
  /\ sends' = sends + 1
  /\ LET provider == MapGet(providers, settings.provider) IN
     CASE text = <<>> ->
            UNCHANGED <<isStreaming, conversationHistory, running>>
       [] text # <<>> /\ Head(text) = "/clear" ->
            /\ conversationHistory' = clearChat
            /\ UNCHANGED <<isStreaming, running>>
       [] text # <<>> /\ Head(text) = "/generate" ->
            IF provider = <<>>
            THEN UNCHANGED <<isStreaming, conversationHistory, running>>
            ELSE /\ isStreaming' = TRUE
                 /\ running' = Append(running, Call("generate", text, provider))
                 /\ UNCHANGED conversationHistory
       [] OTHER ->
            IF provider = <<>> \/ settings.selectedModel = ""
            THEN UNCHANGED <<isStreaming, conversationHistory, running>>
            ELSE /\ isStreaming' = TRUE
                 /\ conversationHistory' =
                      Append(conversationHistory, [role |-> "user", content |-> text])
                 /\ running' = Append(running, Call("send", text, provider))
  /\ UNCHANGED <<kind, showThinking, streamVars, callVars, convVars, regVars,
                 pluginVars, pairVars>>
\* sendMessage(), up to its first await: the guard, the slash commands
\* /clear and /generate (cmdGenerate up to `await provider.chat`), the
\* provider and model tests, then isStreaming and the user entry.
SendMessage(text) ==
  /\ sends < MaxSends
  /\ sends' = sends + 1
  /\ LET provider == MapGet(providers, settings.provider) IN
     CASE text = <<>> \/ isStreaming ->
            UNCHANGED <<isStreaming, conversationHistory, running>>
       [] ~isStreaming /\ text # <<>> /\ Head(text) = "/clear" ->
            /\ conversationHistory' = clearChat
            /\ UNCHANGED <<isStreaming, running>>
       [] ~isStreaming /\ text # <<>> /\ Head(text) = "/generate" ->
            IF provider = <<>>
            THEN UNCHANGED <<isStreaming, conversationHistory, running>>
            ELSE /\ isStreaming' = TRUE
                 /\ running' = Append(running, Call("generate", text, provider))
                 /\ UNCHANGED conversationHistory
       [] OTHER ->
            IF provider = <<>> \/ settings.selectedModel = ""
            THEN UNCHANGED <<isStreaming, conversationHistory, running>>
            ELSE /\ isStreaming' = TRUE
                 /\ conversationHistory' =
                      Append(conversationHistory, [role |-> "user", content |-> text])
                 /\ running' = Append(running, Call("send", text, provider))
  /\ UNCHANGED <<kind, showThinking, streamVars, callVars, convVars, regVars,
                 pluginVars, pairVars>>

\* The New-chat button.
ClearChat ==
  /\ conversationHistory' = clearChat
  /\ UNCHANGED <<isStreaming, running, sends>>
  /\ UNCHANGED <<kind, showThinking, streamVars, callVars, convVars, regVars,
                 pluginVars, pairVars>>

\* The model dropdown of the settings tab, while the view is open.
ChatSelectModel(value) ==
  /\ started < MaxModelChanges
  /\ OnChange("selectedModel", value)


ChatRest ==
  /\ UNCHANGED sends
  /\ UNCHANGED <<kind, showThinking, streamVars, callVars, convVars, regVars,
                 pluginVars, pairVars>>

\* The call i leaves through `finally`: isStreaming = false.  With push, the
\* `if (gotResponse && fullResponse)` block has run first.
Settle(i, push) ==
  /\ running' = Without(running, i)
  /\ isStreaming' = FALSE
  /\ conversationHistory' =
       IF push /\ running[i].gotResponse /\ running[i].fullResponse # <<>>
       THEN Append(conversationHistory,
                   [role |-> "assistant", content |-> running[i].fullResponse])
       ELSE conversationHistory

\* The catch of the streaming try: chat() is called with the model selected
\* now and the messages built before.
Fallback(i) ==
  /\ running' = [running EXCEPT ![i].pc = "fallback",
                                ![i].chats = @ + 1,
                                ![i].chatModel = settings.selectedModel,
                                ![i].chatMessages = running[i].messages]
  /\ UNCHANGED <<isStreaming, conversationHistory>>

\* buildSystemPrompt resolved: messages is built from the history as it is
\* now, and chatStream() is called.
PromptBuilt(i) ==
  /\ running[i].pc = "prompt"
  /\ running' = [running EXCEPT ![i].pc = "handshake",
                                ![i].messages = <<SystemPrompt>> \o conversationHistory,
                                ![i].streamModel = settings.selectedModel]
  /\ UNCHANGED <<isStreaming, conversationHistory>>
  /\ ChatRest

\* chatStream() resolved with a stream.
ChatStreamResolve(i) ==
  /\ running[i].pc = "handshake"
  /\ running' = [running EXCEPT ![i].pc = "streaming"]
  /\ UNCHANGED <<isStreaming, conversationHistory>>
  /\ ChatRest

\* chatStream() rejected.
ChatStreamReject(i) ==
  /\ running[i].pc = "handshake"
  /\ Fallback(i)
  /\ ChatRest

\* The stream gave a content delta: one turn of the for-await loop.
StreamDelta(i, content) ==
  /\ running[i].pc = "streaming"
  /\ running[i].deltas < MaxDeltas
  /\ running' = [running EXCEPT ![i].gotResponse = TRUE,
                                ![i].fullResponse = @ \o content,
                                ![i].deltas = @ + 1]
  /\ UNCHANGED <<isStreaming, conversationHistory>>
  /\ ChatRest

\* The stream gave its terminal delta (break) or ended.
StreamEnd(i) ==
  /\ running[i].pc = "streaming"
  /\ Settle(i, TRUE)
  /\ ChatRest

\* The stream, or the rendering of a delta, raised.
StreamRaise(i) ==
  /\ running[i].pc = "streaming"
  /\ Fallback(i)
  /\ ChatRest

\* provider.chat() resolved: for sendMessage the fallback's response
\* replaces fullResponse; then the text is rendered.
ChatResolve(i, text) ==
  /\ running[i].pc \in {"fallback", "chat"}
  /\ running' = [running EXCEPT ![i].pc = "render",
                                ![i].fullResponse = text,
                                ![i].gotResponse = TRUE]
  /\ UNCHANGED <<isStreaming, conversationHistory>>
  /\ ChatRest

\* provider.chat() rejected: the outer catch of sendMessage, the catch of
\* cmdGenerate.
ChatReject(i) ==
  /\ running[i].pc \in {"fallback", "chat"}
  /\ Settle(i, FALSE)
  /\ ChatRest

\* MarkdownRenderer.render settled after a chat() response.
RenderDone(i) ==
  /\ running[i].pc = "render"
  /\ Settle(i, running[i].cmd = "send")
  /\ ChatRest

NextChat ==
  \/ \E text \in ChatInputs : SendMessage(text)
  \/ ClearChat
  \/ \E value \in FieldValues.selectedModel : ChatSelectModel(value)
  \/ SaveSettingsResolve
  \/ SaveSettingsReject
  \/ \E i \in 1..Len(running) : PromptBuilt(i)
  \/ \E i \in 1..Len(running) : ChatStreamResolve(i)
  \/ \E i \in 1..Len(running) : ChatStreamReject(i)
  \/ \E i \in 1..Len(running) : \E content \in DeltaContents : StreamDelta(i, content)
  \/ \E i \in 1..Len(running) : StreamEnd(i)
  \/ \E i \in 1..Len(running) : StreamRaise(i)
  \/ \E i \in 1..Len(running) : \E text \in ResponseTexts : ChatResolve(i, text)
  \/ \E i \in 1..Len(running) : ChatReject(i)
  \/ \E i \in 1..Len(running) : RenderDone(i)

SpecChat == InitChat /\ [][NextChat]_vars

\* ------------------------------------------------------------------ C26
\* The calls that have a model request in flight: chatStream() not yet
\* settled or its stream open, or chat() not yet settled.
InFlight == {i \in 1..Len(running) : running[i].pc \in {"handshake", "streaming", "fallback", "chat"}}
\* A sendMessage call made while isStreaming is true changes nothing.
GuardedSend == (isStreaming /\ sends' # sends) => UNCHANGED <<isStreaming, conversationHistory, running>>
\* A call that leaves its handler leaves isStreaming false.
ClearedAtExit == Len(running') < Len(running) => ~isStreaming'

\* C26 as stated: isStreaming is true exactly while a model request is in
\* flight, at most one is in flight, a sendMessage made while isStreaming is
\* true has no effect, and isStreaming is false after a request finishes.
C26_StreamingExactlyInFlight ==
  /\ [](isStreaming <=> InFlight # {})
  /\ [](Cardinality(InFlight) <= 1)
  /\ [][GuardedSend]_vars
  /\ [][ClearedAtExit]_vars

\* C26, amended: isStreaming is true whenever a model request is in flight
\* (it is true from the moment a message or /generate is accepted until the
\* handler's finally, so exactly while a call is suspended), at most one
\* call is suspended and so at most one request is in flight, a sendMessage
\* made while isStreaming is true has no effect, and isStreaming is false
\* when the call has left its handler.
C26_StreamingWhileInFlight ==
  /\ [](InFlight # {} => isStreaming)
  /\ [](isStreaming <=> running # <<>>)
  /\ [](Len(running) <= 1)
  /\ [][GuardedSend]_vars
  /\ [][ClearedAtExit]_vars

\* A second sendMessage was made while the fallback chat() of the first was
\* in flight: still one call, one user entry.
C26_Witness ==
  /\ isStreaming /\ sends = 2
  /\ Len(running) = 1 /\ running[1].cmd = "send" /\ running[1].pc = "fallback"
  /\ running[1].fullResponse # <<>>
  /\ Len(conversationHistory) = 1

\* ------------------------------------------------------------------ C27
\* C27: every assistant entry of conversationHistory comes right after a
\* user entry, and an empty history gets a user entry first.
C27_AssistantFollowsUser ==
  /\ [](\A i \in 1..Len(conversationHistory) :
          conversationHistory[i].role = "assistant" =>
            (i > 1 /\ conversationHistory[i - 1].role = "user"))
  /\ [][(conversationHistory = <<>> /\ conversationHistory' # <<>>) =>
          conversationHistory'[1].role = "user"]_vars

\* ------------------------------------------------------------------ C28
\* C28: once the stream of a sendMessage has failed, one chat() has been
\* issued, with the model and the messages of the chatStream request; the
\* call then appends either nothing or the chat() response text alone, and
\* nothing when chat() rejects.
C28_FallbackSameRequest ==
  /\ [](\A i \in 1..Len(running) :
          (running[i].cmd = "send" /\ running[i].pc \in {"fallback", "render"}) =>
            /\ running[i].chats = 1
            /\ running[i].chatModel = running[i].streamModel
            /\ running[i].chatMessages = running[i].messages)
  /\ [][\A i \in 1..Len(running) :
          (running[i].cmd = "send" /\ running[i].chats > 0
             /\ Len(running') < Len(running)) =>
            \/ conversationHistory' = conversationHistory
            \/ /\ running[i].pc = "render"
               /\ running[i].fullResponse \in ResponseTexts \ {<<>>}
               /\ conversationHistory' =
                    Append(conversationHistory,
                           [role |-> "assistant", content |-> running[i].fullResponse])]_vars

====
